---- MODULE Spec2Model ----
(***************************************************************************)
(* YouTube AI coding monitor (softxai/youtube-ai-monitor).                 *)
(*                                                                         *)
(* The model follows src/src/monitor.py (YouTubeMonitor: the monitoring    *)
(* cycle, save_video, generate_daily_report, start_scheduler, main),       *)
(* src/src/analyzer.py (ContentAnalyzer: relevance, score, categories) and *)
(* the error handling of src/src/youtube_api.py (YouTubeAPI).              *)
(*                                                                         *)
(* Time is counted in hours.  Text is kept as TLA+ strings and matched     *)
(* with Python's substring test.  A video dict is kept as the key of the   *)
(* upstream item it was built from (its raw fields never change) together  *)
(* with the three keys save_video adds.                                    *)
(***************************************************************************)
EXTENDS Integers, Sequences, FiniteSets, TLC

(***************************************************************************)
(* Text helpers: str.lower(), `k in s`, ' '.join(...)                      *)
(***************************************************************************)
Uppers == "ABCDEFGHIJKLMNOPQRSTUVWXYZ"

Lowers == "abcdefghijklmnopqrstuvwxyz"

LowerChar(c) ==
    IF \E i \in 1..Len(Uppers) : SubSeq(Uppers, i, i) = c
    THEN LET i == CHOOSE j \in 1..Len(Uppers) : SubSeq(Uppers, j, j) = c
         IN  SubSeq(Lowers, i, i)
    ELSE c

RECURSIVE Lower(_)
Lower(s) == IF Len(s) = 0 THEN "" ELSE LowerChar(SubSeq(s, 1, 1)) \o Lower(Tail(s))

\* Python's `k in s` on strings
Contains(k, s) ==
    \E i \in 1..(Len(s) - Len(k) + 1) : SubSeq(s, i, i + Len(k) - 1) = k

RECURSIVE Join(_)
Join(ts) ==
    IF Len(ts) = 0 THEN ""
    ELSE IF Len(ts) = 1 THEN ts[1]
    ELSE ts[1] \o " " \o Join(Tail(ts))

RECURSIVE LowerAll(_)
LowerAll(ts) == IF Len(ts) = 0 THEN <<>> ELSE <<Lower(ts[1])>> \o LowerAll(Tail(ts))

(***************************************************************************)
(* ContentAnalyzer.__init__: the keyword lists                             *)
(***************************************************************************)
ai_keywords ==
    << "ai", "artificial intelligence", "machine learning", "ml", "llm", "gpt",
       "claude", "chatgpt", "copilot", "github copilot", "openai", "anthropic",
       "neural network", "deep learning", "transformer", "bert", "nlp" >>

coding_keywords ==
    << "programming", "coding", "development", "software", "code", "python",
       "javascript", "react", "node", "web development", "app development",
       "api", "framework", "library", "tutorial", "how to code", "build",
       "create", "developer", "engineering" >>

ai_coding_keywords ==
    << "ai coding", "ai programming", "code with ai", "ai assistant",
       "prompt engineering", "code generation", "automated coding",
       "ai pair programming", "intelligent code completion", "ai debugging",
       "code review ai", "ai refactoring" >>

\* dict order of self.categories
category_names ==
    << "claude", "chatgpt", "copilot", "tutorials", "tools", "development",
       "review", "advanced" >>

category_keywords ==
    << << "claude", "anthropic", "claude ai", "claude coding" >>,
       << "chatgpt", "chat gpt", "openai", "gpt-4", "gpt-3" >>,
       << "github copilot", "copilot", "microsoft copilot" >>,
       << "tutorial", "how to", "guide", "learn", "course", "lesson" >>,
       << "tool", "extension", "plugin", "ide", "vscode", "editor" >>,
       << "build", "create", "develop", "project", "app" >>,
       << "review", "comparison", "vs", "versus", "test", "demo" >>,
       << "advanced", "expert", "professional", "enterprise", "scaling" >> >>

trusted_channels ==
    << "fireship", "coding with john", "freecodecamp", "traversy media",
       "the net ninja", "academind", "programming with mosh", "sentdex",
       "tech with tim", "corey schafer", "derek banas", "dev ed" >>

\* sum(1 for keyword in kws if keyword in text)
MatchCount(kws, text) == Cardinality({ i \in 1..Len(kws) : Contains(kws[i], text) })

AnyMatch(kws, text) == \E i \in 1..Len(kws) : Contains(kws[i], text)

\* a search text that takes the channel name in
ContentOf_WithChannel(item) ==
    Lower(item.title) \o " " \o Lower(item.description) \o " " \o Join(LowerAll(item.tags))
      \o " " \o Lower(item.channel_title)

\* content = f"{title} {description} {' '.join(tags)}", all lower-cased
ContentOf(item) ==
    Lower(item.title) \o " " \o Lower(item.description) \o " " \o Join(LowerAll(item.tags))

IsTrusted(item) == AnyMatch(trusted_channels, Lower(item.channel_title))

(***************************************************************************)
(* ContentAnalyzer.is_ai_coding_relevant                                   *)
(***************************************************************************)
\* a verdict that asks for an AI and a coding match but for no total
is_ai_coding_relevant_NoTotal(item) ==
    LET content         == ContentOf(item)
        ai_coding_score == MatchCount(ai_coding_keywords, content)
        ai_score        == MatchCount(ai_keywords, content)
        coding_score    == MatchCount(coding_keywords, content)
    IN  (ai_coding_score >= 1) \/ (ai_score > 0 /\ coding_score > 0)

\* a verdict that is content with a total of two
is_ai_coding_relevant_TotalTwo(item) ==
    LET content         == ContentOf(item)
        ai_coding_score == MatchCount(ai_coding_keywords, content)
        ai_score        == MatchCount(ai_keywords, content)
        coding_score    == MatchCount(coding_keywords, content)
        channel_bonus   == IF IsTrusted(item) THEN 2 ELSE 0
        total_score     == ai_coding_score * 3 + ai_score + coding_score + channel_bonus
        has_ai          == ai_score > 0 \/ ai_coding_score > 0
        has_coding      == coding_score > 0 \/ ai_coding_score > 0
    IN  (ai_coding_score >= 1) \/ (has_ai /\ has_coding /\ total_score >= 2)

is_ai_coding_relevant(item) ==
    LET content         == ContentOf(item)
        ai_coding_score == MatchCount(ai_coding_keywords, content)
        ai_score        == MatchCount(ai_keywords, content)
        coding_score    == MatchCount(coding_keywords, content)
        channel_bonus   == IF IsTrusted(item) THEN 2 ELSE 0
        total_score     == ai_coding_score * 3 + ai_score + coding_score + channel_bonus
        has_ai          == ai_score > 0 \/ ai_coding_score > 0
        has_coding      == coding_score > 0 \/ ai_coding_score > 0
    IN  (ai_coding_score >= 1) \/ (has_ai /\ has_coding /\ total_score >= 3)

(***************************************************************************)
(* ContentAnalyzer.calculate_relevance_score                               *)
(***************************************************************************)
\* points for the keywords found, none for finding them in the title
RECURSIVE KeywordPoints_NoTitle(_, _, _, _, _)
KeywordPoints_NoTitle(kws, content, title, base, extra) ==
    IF Len(kws) = 0 THEN 0
    ELSE (IF Contains(kws[1], content) THEN base ELSE 0)
         + KeywordPoints_NoTitle(Tail(kws), content, title, base, extra)

RECURSIVE KeywordPoints(_, _, _, _, _)
KeywordPoints(kws, content, title, base, extra) ==
    IF Len(kws) = 0 THEN 0
    ELSE (IF Contains(kws[1], content)
          THEN base + (IF Contains(kws[1], title) THEN extra ELSE 0)
          ELSE 0)
         + KeywordPoints(Tail(kws), content, title, base, extra)

Min(a, b) == IF a < b THEN a ELSE b

\* points with bonuses from the thresholds on
RawScore_AtThreshold(item) ==
    LET title   == Lower(item.title)
        content == ContentOf(item)
    IN  KeywordPoints(ai_coding_keywords, content, title, 15, 10)
          + KeywordPoints(ai_keywords, content, title, 5, 5)
          + KeywordPoints(coding_keywords, content, title, 3, 3)
          + (IF IsTrusted(item) THEN 20 ELSE 0)
          + (IF item.view_count >= 100000 THEN 10
             ELSE IF item.view_count >= 10000 THEN 5 ELSE 0)
          + (IF item.like_count >= 1000 THEN 5 ELSE 0)

\* the points of an item before the cap
RawScore(item) ==
    LET title   == Lower(item.title)
        content == ContentOf(item)
        score   == KeywordPoints(ai_coding_keywords, content, title, 15, 10)
                   + KeywordPoints(ai_keywords, content, title, 5, 5)
                   + KeywordPoints(coding_keywords, content, title, 3, 3)
                   + (IF IsTrusted(item) THEN 20 ELSE 0)
                   + (IF item.view_count > 100000 THEN 10
                      ELSE IF item.view_count > 10000 THEN 5 ELSE 0)
                   + (IF item.like_count > 1000 THEN 5 ELSE 0)
    IN  score

\* a score that is returned as it was added up
calculate_relevance_score_NoCap(item) == RawScore(item)

\* `return min(score, 100)`
calculate_relevance_score(item) == Min(RawScore(item), 100)

(***************************************************************************)
(* ContentAnalyzer.categorize_video                                        *)
(***************************************************************************)
RECURSIVE CategoriesFrom(_, _)
CategoriesFrom(i, content) ==
    IF i > Len(category_names) THEN <<>>
    ELSE (IF AnyMatch(category_keywords[i], content) THEN <<category_names[i]>> ELSE <<>>)
         \o CategoriesFrom(i + 1, content)

categorize_video(item) == CategoriesFrom(1, ContentOf(item))

(***************************************************************************)
(* The video dicts a caller can hand to the ContentAnalyzer.  A key of the *)
(* dict has a value, has the value None, or is not in the dict.            *)
(***************************************************************************)
Value(v) == [ kind |-> "value", val |-> v ]

NoneText == [ kind |-> "null", val |-> "" ]

NoText == [ kind |-> "absent", val |-> "" ]

NoneTags == [ kind |-> "null", val |-> <<>> ]

NoTags == [ kind |-> "absent", val |-> <<>> ]

NoneCount == [ kind |-> "null", val |-> 0 ]

NoCount == [ kind |-> "absent", val |-> 0 ]

\* five "ai coding" phrases in one title
RichTitle ==
    "AI coding: code with AI assistant, prompt engineering and code generation"

Titles ==
    { Value(""), Value("AI Coding with Claude"), Value("React Tutorial"),
      Value("GPT code"), Value("ChatGPT demo"), Value(RichTitle), NoneText, NoText }

Descriptions == { Value(""), Value("Build an app with Python"), NoneText }

TagLists == { Value(<<>>), Value(<<"AI", "coding">>), NoneTags, NoTags }

ChannelTitles == { Value("Fireship"), Value("Code Corner"), NoneText, NoText }

ViewCounts ==
    { Value(500), Value(10000), Value(50000), Value(100000), Value(150000), NoneCount }

LikeCounts == { Value(100), Value(1000), Value(2000) }

\* the first video of test_analyzer
TestVideo ==
    [ title |-> Value("Build a ChatGPT Clone with React and OpenAI API"),
      description |-> Value("Learn how to create your own AI chat application using React, Node.js and the OpenAI API"),
      tags |-> Value(<<"react", "chatgpt", "openai", "tutorial">>),
      channel_title |-> Value("JavaScript Mastery"),
      view_count |-> Value(50000), like_count |-> Value(2000) ]

\* videos that say little: one AI keyword and one or two coding keywords in
\* the description, nothing in the title
PlainVideo(description, channel_title) ==
    [ title |-> Value("Weekly stream"), description |-> Value(description),
      tags |-> Value(<<>>), channel_title |-> Value(channel_title),
      view_count |-> Value(500), like_count |-> Value(100) ]

PlainVideos ==
    { PlainVideo(d, c) : d \in { "GPT in Python and JavaScript", "GPT in Python" },
                         c \in { "Fireship", "Code Corner" } }

Samples ==
    [ title : Titles, description : Descriptions, tags : TagLists,
      channel_title : ChannelTitles, view_count : ViewCounts, like_count : LikeCounts ]
    \cup { TestVideo, [TestVideo EXCEPT !.view_count = Value(500)] }
    \cup PlainVideos

NoSample ==
    [ title |-> NoText, description |-> NoText, tags |-> NoTags,
      channel_title |-> NoText, view_count |-> NoCount, like_count |-> NoCount ]

\* video.get(key, default)
DictGet(field, default) == IF field.kind = "absent" THEN Value(default) ELSE field

IsNone(field) == field.kind = "null"

\* the dict as the methods see it where no key holds None
Plain(d) ==
    [ title |-> DictGet(d.title, "").val,
      description |-> DictGet(d.description, "").val,
      tags |-> DictGet(d.tags, <<>>).val,
      channel_title |-> DictGet(d.channel_title, "").val,
      view_count |-> DictGet(d.view_count, 0).val,
      like_count |-> DictGet(d.like_count, 0).val ]

\* `video.get('title', '').lower()` and the like: None has no lower(), and
\* `for tag in None` is a TypeError
TextRaises(d) == IsNone(d.title) \/ IsNone(d.description) \/ IsNone(d.tags)

\* is_ai_coding_relevant and calculate_relevance_score lower the channel too
ChannelRaises(d) == IsNone(d.channel_title)

\* `if view_count > 100000`, `if like_count > 1000`: None > int is a TypeError
CountRaises(d) == IsNone(d.view_count) \/ IsNone(d.like_count)

NoOutcome ==
    [ fn |-> "", raised |-> FALSE, relevant |-> FALSE, score |-> 0, categories |-> <<>> ]

(***************************************************************************)
(* The parameters of a /videos request and the page that answers it        *)
(***************************************************************************)
\* int(request.args.get('days', 30))
LookbackDefault == 30

Queries ==
    [ category : {"", "claude"}, min_score : { NoCount, Value(50) },
      search : {"", "Copilot"}, days : { NoCount, Value(0) } ]

\* /videos with no parameters
NoQuery == [ category |-> "", min_score |-> NoCount, search |-> "", days |-> NoCount ]

NoPage ==
    [ asked |-> FALSE, query |-> NoQuery, at |-> 0, videos |-> <<>>,
      printed |-> {}, raised |-> FALSE ]

(***************************************************************************)
(* The upstream items the platform can return (get_video_details builds    *)
(* one dict per video id).  vidA exists in two editions: its title and     *)
(* counts were edited upstream.                                            *)
(***************************************************************************)
ItemKeys == {"A1", "A2", "B1", "N1"}

Catalog ==
    [ A1 |-> [ id |-> "vidA", title |-> "AI Coding with Claude",
               description |-> "Prompt engineering tips", tags |-> <<"AI", "coding">>,
               channel_id |-> "UCa", channel_title |-> "Fireship",
               view_count |-> 50000, like_count |-> 2000 ],
      A2 |-> [ id |-> "vidA", title |-> "Claude vs Copilot",
               description |-> "Code review demo", tags |-> <<"AI", "coding">>,
               channel_id |-> "UCa", channel_title |-> "Fireship",
               view_count |-> 150000, like_count |-> 900 ],
      B1 |-> [ id |-> "vidB", title |-> "ChatGPT Python Tutorial",
               description |-> "Build an app", tags |-> <<"python">>,
               channel_id |-> "UCb", channel_title |-> "Code Corner",
               view_count |-> 8000, like_count |-> 100 ],
      N1 |-> [ id |-> "vidN", title |-> "React Tutorial",
               description |-> "Learn hooks", tags |-> <<"react">>,
               channel_id |-> "UCb", channel_title |-> "Code Corner",
               view_count |-> 20000, like_count |-> 50 ] ]

Raw(k) ==
    [ key |-> k, annotated |-> FALSE, discovered_at |-> 0,
      categories |-> <<>>, relevance_score |-> 0 ]

IdOf(video) == Catalog[video.key].id

Ids == { Catalog[k].id : k \in ItemKeys }

\* What the ContentAnalyzer answers for each item of the catalog.  The three
\* methods are functions of the item alone, so the answers are worked out
\* once and looked up at each call.
Analysis ==
    [ A1 |-> [ relevant |-> is_ai_coding_relevant(Catalog["A1"]),
               categories |-> categorize_video(Catalog["A1"]),
               relevance_score |-> calculate_relevance_score(Catalog["A1"]) ],
      A2 |-> [ relevant |-> is_ai_coding_relevant(Catalog["A2"]),
               categories |-> categorize_video(Catalog["A2"]),
               relevance_score |-> calculate_relevance_score(Catalog["A2"]) ],
      B1 |-> [ relevant |-> is_ai_coding_relevant(Catalog["B1"]),
               categories |-> categorize_video(Catalog["B1"]),
               relevance_score |-> calculate_relevance_score(Catalog["B1"]) ],
      N1 |-> [ relevant |-> is_ai_coding_relevant(Catalog["N1"]),
               categories |-> categorize_video(Catalog["N1"]),
               relevance_score |-> calculate_relevance_score(Catalog["N1"]) ] ]

\* a monitor that takes every video for AI coding content
is_ai_coding_content_Always(video) == video.key \in ItemKeys

\* YouTubeMonitor.is_ai_coding_content
is_ai_coding_content(video) == Analysis[video.key].relevant

(***************************************************************************)
(* Configuration (.env) and the bounds of the model                        *)
(***************************************************************************)
\* MONITOR_CHANNELS=UCa,,UCb and SEARCH_TERMS=ai coding, after split(',')
channels == << "UCa", "", "UCb" >>

search_terms == << "ai coding" >>

\* CHECK_INTERVAL_HOURS=1
interval_hours == 1

HoursPerDay == 24

\* the clock starts at StartHour and is followed up to MaxHour
StartHour == 22

MaxHour == 24

\* the scheduler is followed for MaxCycles cycles
MaxCycles == 3

\* top_videos keeps [:10]
TopN == 10

Procs == {1, 2}

NumSources == Len(channels) + Len(search_terms)

IsChannel(i) == i <= Len(channels)

SourceName(i) == IF IsChannel(i) THEN channels[i] ELSE search_terms[i - Len(channels)]

\* strftime('%Y-%m-%d') and isoformat()[:10]: the calendar date of an hour
DateOf(t) == t \div HoursPerDay

(***************************************************************************)
(* The platform: the set of items currently published, one edition per id  *)
(* (vidN is there throughout).  A channel listing returns the channel's    *)
(* uploads, a search returns every published item, in the platform's order.*)
(***************************************************************************)
Worlds == { w \in SUBSET ItemKeys :
              /\ \A a, b \in w : Catalog[a].id = Catalog[b].id => a = b
              /\ "N1" \in w }

UploadOrder == << "A1", "A2", "B1", "N1" >>

SearchOrder == << "N1", "B1", "A2", "A1" >>

RECURSIVE Pick(_, _, _)
Pick(order, world, chan) ==
    IF Len(order) = 0 THEN <<>>
    ELSE (IF order[1] \in world /\ (chan = "" \/ Catalog[order[1]].channel_id = chan)
          THEN << Raw(order[1]) >> ELSE <<>>)
         \o Pick(Tail(order), world, chan)

\* what api.get_channel_videos / api.search_videos return when the calls succeed
Listing(i, world) ==
    IF IsChannel(i) THEN Pick(UploadOrder, world, SourceName(i))
    ELSE Pick(SearchOrder, world, "")

VARIABLES
    now,              \* datetime.now(), in hours
    upstream,         \* the platform: frozen or changing, and its items if frozen
    files,            \* data/videos/<id>.json
    dirorder,         \* the order os.listdir enumerates data/videos in
    reports,          \* data/reports/daily_report_<date>.json
    pc,               \* where each monitor process is
    mode,             \* sys.argv: "once" or "continuous"
    has_key,          \* YOUTUBE_API_KEY is set
    numeric,          \* which of the integer settings of .env int() can parse
    caller,           \* who called run_monitoring_cycle
    next_run,         \* the scheduled job's next run
    src,              \* index of the channel / search term being handled
    videos,           \* the list the API call returned
    vi,               \* index of the video being handled
    channel_videos,   \* monitor_channels' new_videos
    search_videos,    \* monitor_search_terms' new_videos
    all_videos,       \* run_monitoring_cycle's all_videos
    today,            \* generate_daily_report's today
    report,           \* generate_daily_report's report
    ret,              \* what the last save_video call returned
    log,              \* what the current cycle printed
    hist,             \* per process: what happened in the current cycle
    glob,             \* per id: the write events on its file
    sample,           \* a video dict handed to the ContentAnalyzer directly
    outcome,          \* what the ContentAnalyzer method called on it did
    page,             \* what the dashboard answered to the last /videos request
    listed,           \* a list of the day's videos handed to the report's aggregation
    built             \* the report dict made of it

aggVars == << listed, built >>

anVars == << sample, outcome, page, aggVars >>

envVars == << now, upstream >>

fsVars == << files, dirorder, reports >>

schedVars == << mode, has_key, numeric, caller, next_run >>

loopVars == << src, videos, vi, channel_videos, search_videos >>

repVars == << all_videos, today, report >>

vars == << now, upstream, files, dirorder, reports, pc, mode, has_key, numeric, caller,
           next_run, src, videos, vi, channel_videos, search_videos, all_videos,
           today, report, ret, log, hist, glob, sample, outcome, page, listed, built >>

\* The content the platform has at the time of an API call.  Either it stays
\* as it is for the whole run (frozen), or items are published, edited and
\* removed between any two calls.
PlatformNow == IF upstream.frozen THEN { upstream.world } ELSE Worlds

(***************************************************************************)
(* Files                                                                   *)
(***************************************************************************)
NoFile == [ state |-> "none", video |-> Raw("A1") ]

\* open(filename, 'w') has run, json.dump has not
PartialFile == [ state |-> "partial", video |-> Raw("A1") ]

FullFile(video) == [ state |-> "full", video |-> video ]

\* a store that never sees the file that is there
Exists_Never(id) == files[id].state = "absent"

\* os.path.exists(filename)
Exists(id) == files[id].state # "none"

NoReport == [ written |-> FALSE, date |-> 0, total_videos |-> 0,
              categories |-> <<>>, top_videos |-> <<>>, channels |-> {},
              generated_at |-> 0 ]

Days == DateOf(StartHour) .. DateOf(MaxHour)

\* all the ways to put a new name into the directory's enumeration order
Inserted(order, id) ==
    { SubSeq(order, 1, i) \o << id >> \o SubSeq(order, i + 1, Len(order)) :
        i \in 0..Len(order) }

(***************************************************************************)
(* Reporting                                                               *)
(***************************************************************************)
RECURSIVE Flatten(_)
Flatten(vs) == IF Len(vs) = 0 THEN <<>> ELSE vs[1].categories \o Flatten(Tail(vs))

\* a breakdown that counts each video under its first category only
get_category_breakdown_FirstOnly(vs) ==
    LET firsts  == { i \in 1..Len(vs) : Len(vs[i].categories) > 0 }
        present == { vs[i].categories[1] : i \in firsts }
    IN  [ c \in present |-> Cardinality({ i \in firsts : vs[i].categories[1] = c }) ]

\* ContentAnalyzer.get_category_breakdown: dict(Counter(all_categories))
get_category_breakdown(vs) ==
    LET all_categories == Flatten(vs)
        present == { all_categories[i] : i \in 1..Len(all_categories) }
    IN  [ c \in present |->
            Cardinality({ i \in 1..Len(all_categories) : all_categories[i] = c }) ]

\* insert v behind every element whose score is at least v's (a stable sort)
RECURSIVE InsertDesc(_, _)
InsertDesc(v, sorted) ==
    IF Len(sorted) = 0 THEN << v >>
    ELSE IF sorted[1].relevance_score >= v.relevance_score
         THEN << sorted[1] >> \o InsertDesc(v, Tail(sorted))
         ELSE << v >> \o sorted

\* sorted(vs, key=relevance_score, reverse=True)
RECURSIVE SortedDesc(_)
SortedDesc(vs) ==
    IF Len(vs) = 0 THEN <<>>
    ELSE InsertDesc(vs[Len(vs)], SortedDesc(SubSeq(vs, 1, Len(vs) - 1)))

Take(vs, n) == SubSeq(vs, 1, Min(n, Len(vs)))

\* the loop of generate_daily_report over os.listdir
RECURSIVE LoadToday(_, _, _)
LoadToday(order, fs, day) ==
    IF Len(order) = 0 THEN <<>>
    ELSE (IF DateOf(fs[order[1]].video.discovered_at) = day
          THEN << fs[order[1]].video >> ELSE <<>>)
         \o LoadToday(Tail(order), fs, day)

BuildReport(day, today_videos, at) ==
    [ written |-> TRUE, date |-> day,
      total_videos |-> Len(today_videos),
      categories |-> get_category_breakdown(today_videos),
      top_videos |-> Take(SortedDesc(today_videos), TopN),
      channels |-> { Catalog[today_videos[i].key].channel_title :
                       i \in 1..Len(today_videos) },
      generated_at |-> at ]

\* the two lists put together, duplicates kept
DictValues_NoDedupe(vs, seen) == vs

\* {v['id']: v for v in vs}.values(): first position of each id, last value
RECURSIVE DictValues(_, _)
DictValues(vs, seen) ==
    IF Len(vs) = 0 THEN <<>>
    ELSE IF IdOf(vs[1]) \in seen THEN DictValues(Tail(vs), seen)
    ELSE LET same == { i \in 1..Len(vs) : IdOf(vs[i]) = IdOf(vs[1]) }
             last == CHOOSE i \in same : \A j \in same : j <= i
         IN  << vs[last] >> \o DictValues(Tail(vs), seen \cup { IdOf(vs[1]) })

(***************************************************************************)
(* Bookkeeping for the properties: what a cycle did (hist, per process)    *)
(* and the write events on each video file (glob, per id).                 *)
(***************************************************************************)
\* a save_video call: its video id, whether the file was there when it was
\* called, whether it wrote
NoSave == [ called |-> FALSE, id |-> "", existed |-> FALSE, wrote |-> FALSE ]

NoHist ==
    [ cycle |-> 0,            \* number of the current cycle
      written |-> {},         \* ids whose file this cycle created
      relevant |-> {},        \* ids this cycle classified relevant
      yielders |-> {},        \* <<id, source>>: source yielded a relevant item id
      polled |-> {},          \* sources whose API call was made
      failed |-> {},          \* sources whose API call failed
      dirty |-> FALSE,        \* the platform changed or an API call failed
      prevDirty |-> FALSE,    \*   ... during the previous cycle
      startDay |-> 0,         \* the date the cycle started on
      prevStartDay |-> 0,
      prevReport |-> NoReport,    \* the report the previous cycle wrote
      reported |-> FALSE,     \* this cycle wrote its report
      dumps |-> 0,            \* number of json.dump calls of this cycle
      storeFailed |-> {},     \* sources in which a save_video call raised
      abandoned |-> {},       \* <<id, source>>: listed by source behind a video that raised
      startAt |-> 0,          \* the hour the cycle started at
      endAt |-> 0,            \* the hour run_monitoring_cycle returned at
      signalAt |-> "",        \* where the process was when a signal ended it
      lastSave |-> NoSave ]   \* the last save_video call that returned

NoGlob == [ writes |-> 0, first |-> Raw("A1"), classified |-> FALSE ]

Last(s) == s[Len(s)]

CurList(p) == IF IsChannel(src[p]) THEN channel_videos[p] ELSE search_videos[p]

\* the video dict save_video works on: the one just appended to new_videos
CurVideo(p) == Last(CurList(p))

SetCurVideo(p, v) ==
    IF IsChannel(src[p])
    THEN /\ channel_videos' = [channel_videos EXCEPT ![p] = [@ EXCEPT ![Len(@)] = v]]
         /\ UNCHANGED search_videos
    ELSE /\ search_videos' = [search_videos EXCEPT ![p] = [@ EXCEPT ![Len(@)] = v]]
         /\ UNCHANGED channel_videos

Say(p, entry) == log' = [log EXCEPT ![p] = Append(@, entry)]

(***************************************************************************)
(* main                                                                    *)
(***************************************************************************)
\* `int(os.getenv(...))` raises ValueError: the traceback ends the process
ConfigError(p, setting) ==
    /\ pc' = [pc EXCEPT ![p] = "exit"]
    /\ Say(p, << "traceback", setting >>)
    /\ UNCHANGED << caller, next_run >>

\* a main that does not look at sys.argv: it always starts the scheduler
Main_NoOnce(p) ==
    /\ pc[p] = "main"
    /\ IF ~has_key[p]
       THEN /\ pc' = [pc EXCEPT ![p] = "exit"]
            /\ Say(p, << "no_api_key", "" >>)
            /\ UNCHANGED << caller, next_run >>
       ELSE IF ~numeric[p].limits
       THEN ConfigError(p, "MAX_VIDEOS_PER_SEARCH, DAYS_LOOKBACK")
       ELSE IF ~numeric[p].interval
       THEN ConfigError(p, "CHECK_INTERVAL_HOURS")
       ELSE /\ next_run' = [next_run EXCEPT ![p] = now + interval_hours]
            /\ pc' = [pc EXCEPT ![p] = "cycle_start"]
            /\ caller' = [caller EXCEPT ![p] = "initial"]
            /\ UNCHANGED log
    /\ UNCHANGED << anVars, envVars, fsVars, mode, has_key, numeric, loopVars, repVars, ret,
                    hist, glob >>

\* a main without the test of YOUTUBE_API_KEY
Main_NoKeyCheck(p) ==
    /\ pc[p] = "main"
    /\ IF ~numeric[p].limits
       THEN ConfigError(p, "MAX_VIDEOS_PER_SEARCH, DAYS_LOOKBACK")
       ELSE IF mode[p] = "once"
       THEN /\ pc' = [pc EXCEPT ![p] = "cycle_start"]
            /\ caller' = [caller EXCEPT ![p] = "once"]
            /\ UNCHANGED << next_run, log >>
       ELSE IF ~numeric[p].interval
       THEN ConfigError(p, "CHECK_INTERVAL_HOURS")
       ELSE /\ next_run' = [next_run EXCEPT ![p] = now + interval_hours]
            /\ pc' = [pc EXCEPT ![p] = "cycle_start"]
            /\ caller' = [caller EXCEPT ![p] = "initial"]
            /\ UNCHANGED log
    /\ UNCHANGED << anVars, envVars, fsVars, mode, has_key, numeric, loopVars, repVars, ret,
                    hist, glob >>

Main(p) ==
    /\ pc[p] = "main"
    /\ IF ~has_key[p]
       THEN /\ pc' = [pc EXCEPT ![p] = "exit"]
            /\ Say(p, << "no_api_key", "" >>)
            /\ UNCHANGED << caller, next_run >>
       ELSE IF ~numeric[p].limits
       THEN \* YouTubeMonitor(): int() of MAX_VIDEOS_PER_SEARCH or DAYS_LOOKBACK
            ConfigError(p, "MAX_VIDEOS_PER_SEARCH, DAYS_LOOKBACK")
       ELSE IF mode[p] = "once"
       THEN /\ pc' = [pc EXCEPT ![p] = "cycle_start"]
            /\ caller' = [caller EXCEPT ![p] = "once"]
            /\ UNCHANGED << next_run, log >>
       ELSE IF ~numeric[p].interval
       THEN \* start_scheduler: int() of CHECK_INTERVAL_HOURS
            ConfigError(p, "CHECK_INTERVAL_HOURS")
       ELSE \* start_scheduler: schedule the job, then run the initial check
            /\ next_run' = [next_run EXCEPT ![p] = now + interval_hours]
            /\ pc' = [pc EXCEPT ![p] = "cycle_start"]
            /\ caller' = [caller EXCEPT ![p] = "initial"]
            /\ UNCHANGED log
    /\ UNCHANGED << anVars, envVars, fsVars, mode, has_key, numeric, loopVars, repVars, ret,
                    hist, glob >>

(***************************************************************************)
(* run_monitoring_cycle, monitor_channels, monitor_search_terms            *)
(***************************************************************************)
CycleStart(p) ==
    /\ pc[p] = "cycle_start"
    /\ pc' = [pc EXCEPT ![p] = "source"]
    /\ src' = [src EXCEPT ![p] = 1]
    /\ videos' = [videos EXCEPT ![p] = <<>>]
    /\ vi' = [vi EXCEPT ![p] = 1]
    /\ channel_videos' = [channel_videos EXCEPT ![p] = <<>>]
    /\ search_videos' = [search_videos EXCEPT ![p] = <<>>]
    /\ all_videos' = [all_videos EXCEPT ![p] = <<>>]
    /\ log' = [log EXCEPT ![p] = << << "cycle_start", "" >> >>]
    /\ hist' = [hist EXCEPT ![p] =
                 [ NoHist EXCEPT !.cycle = hist[p].cycle + 1,
                                 !.prevDirty = hist[p].dirty,
                                 !.startDay = DateOf(now),
                                 !.startAt = now,
                                 !.prevStartDay = hist[p].startDay,
                                 !.prevReport = IF hist[p].reported
                                                THEN report[p] ELSE NoReport ]]
    /\ UNCHANGED << anVars, envVars, fsVars, schedVars, today, report, ret, glob >>

\* `if not channel_id.strip(): continue`
SkipBlank(p) ==
    /\ pc[p] = "source"
    /\ src[p] <= NumSources
    /\ SourceName(src[p]) = ""
    /\ src' = [src EXCEPT ![p] = @ + 1]
    /\ UNCHANGED << anVars, envVars, fsVars, pc, schedVars, videos, vi, channel_videos,
                    search_videos, repVars, ret, log, hist, glob >>

\* the API call of a source succeeds
Poll(p) ==
    /\ pc[p] = "source"
    /\ src[p] <= NumSources
    /\ SourceName(src[p]) # ""
    /\ \E w \in PlatformNow :
         videos' = [videos EXCEPT ![p] = Listing(src[p], w)]
    /\ vi' = [vi EXCEPT ![p] = 1]
    /\ pc' = [pc EXCEPT ![p] = "video"]
    /\ Say(p, << "checking", SourceName(src[p]) >>)
    /\ hist' = [hist EXCEPT ![p].polled = @ \cup { src[p] },
                            ![p].dirty = @ \/ ~upstream.frozen]
    /\ UNCHANGED << anVars, envVars, fsVars, schedVars, src, channel_videos, search_videos,
                    repVars, ret, glob >>

\* an API error that is not caught below run_monitoring_cycle: it ends the cycle
PollFail_Aborts(p) ==
    /\ pc[p] = "source"
    /\ src[p] <= NumSources
    /\ SourceName(src[p]) # ""
    /\ pc' = [pc EXCEPT ![p] = "cycle_end"]
    /\ log' = [log EXCEPT ![p] = @ \o << << "checking", SourceName(src[p]) >>,
                                         << "api_error", "" >>,
                                         << "cycle_error", "" >> >>]
    /\ hist' = [hist EXCEPT ![p].polled = @ \cup { src[p] },
                            ![p].failed = @ \cup { src[p] },
                            ![p].dirty = TRUE]
    /\ UNCHANGED << anVars, envVars, fsVars, schedVars, loopVars, repVars, ret, glob >>

\* the API call fails: YouTubeAPI catches the error, prints it and returns []
PollFail(p) ==
    /\ pc[p] = "source"
    /\ src[p] <= NumSources
    /\ SourceName(src[p]) # ""
    /\ videos' = [videos EXCEPT ![p] = <<>>]
    /\ vi' = [vi EXCEPT ![p] = 1]
    /\ pc' = [pc EXCEPT ![p] = "video"]
    /\ log' = [log EXCEPT ![p] = @ \o << << "checking", SourceName(src[p]) >>,
                                         << "api_error", "" >> >>]
    /\ hist' = [hist EXCEPT ![p].polled = @ \cup { src[p] },
                            ![p].failed = @ \cup { src[p] },
                            ![p].dirty = TRUE]
    /\ UNCHANGED << anVars, envVars, fsVars, schedVars, src, channel_videos, search_videos,
                    repVars, ret, glob >>

\* `for video in videos: if self.is_ai_coding_content(video): new_videos.append(video)`
Classify(p) ==
    /\ pc[p] = "video"
    /\ vi[p] <= Len(videos[p])
    /\ LET video == videos[p][vi[p]]
       IN  IF is_ai_coding_content(video)
           THEN /\ IF IsChannel(src[p])
                   THEN /\ channel_videos' = [channel_videos EXCEPT ![p] = Append(@, video)]
                        /\ UNCHANGED search_videos
                   ELSE /\ search_videos' = [search_videos EXCEPT ![p] = Append(@, video)]
                        /\ UNCHANGED channel_videos
                /\ pc' = [pc EXCEPT ![p] = "save"]
                /\ hist' = [hist EXCEPT ![p].relevant = @ \cup { IdOf(video) },
                                        ![p].yielders = @ \cup { << IdOf(video), src[p] >> }]
                /\ glob' = [glob EXCEPT ![IdOf(video)].classified = TRUE]
                /\ UNCHANGED vi
           ELSE /\ vi' = [vi EXCEPT ![p] = @ + 1]
                /\ UNCHANGED << pc, channel_videos, search_videos, hist, glob >>
    /\ UNCHANGED << anVars, envVars, fsVars, schedVars, src, videos, repVars, ret, log >>

\* the list of a source is exhausted: on to the next channel or search term
FeedDone(p) ==
    /\ pc[p] = "video"
    /\ vi[p] > Len(videos[p])
    /\ src' = [src EXCEPT ![p] = @ + 1]
    /\ pc' = [pc EXCEPT ![p] = "source"]
    /\ UNCHANGED << anVars, envVars, fsVars, schedVars, videos, vi, channel_videos,
                    search_videos, repVars, ret, log, hist, glob >>

(***************************************************************************)
(* save_video                                                              *)
(***************************************************************************)
Annotated(video, at) ==
    [ video EXCEPT !.annotated = TRUE,
                   !.discovered_at = at,
                   !.categories = Analysis[video.key].categories,
                   !.relevance_score = Analysis[video.key].relevance_score ]

\* save_video without `if os.path.exists(filename): return`
SaveCheck_NoReturn(p) ==
    /\ pc[p] = "save"
    /\ SetCurVideo(p, Annotated(CurVideo(p), now))
    /\ pc' = [pc EXCEPT ![p] = "save_open"]
    /\ UNCHANGED << anVars, envVars, fsVars, schedVars, src, videos, vi, repVars, ret, log,
                    hist, glob >>

\* `if os.path.exists(filename): return`, else the three analysis keys are set
SaveCheck(p) ==
    /\ pc[p] = "save"
    /\ IF Exists(IdOf(CurVideo(p)))
       THEN /\ ret' = [ret EXCEPT ![p] = "None"]
            /\ vi' = [vi EXCEPT ![p] = @ + 1]
            /\ pc' = [pc EXCEPT ![p] = "video"]
            /\ hist' = [hist EXCEPT ![p].lastSave =
                          [ called |-> TRUE, id |-> IdOf(CurVideo(p)),
                            existed |-> TRUE, wrote |-> FALSE ]]
            /\ UNCHANGED << channel_videos, search_videos >>
       ELSE /\ SetCurVideo(p, Annotated(CurVideo(p), now))
            /\ pc' = [pc EXCEPT ![p] = "save_open"]
            /\ UNCHANGED << ret, vi, hist >>
    /\ UNCHANGED << anVars, envVars, fsVars, schedVars, src, videos, repVars, log, glob >>

\* `open(filename, 'w')`: the file is created, or truncated if it is there
SaveOpen(p) ==
    /\ pc[p] = "save_open"
    /\ LET id == IdOf(CurVideo(p))
       IN  /\ files' = [files EXCEPT ![id] = PartialFile]
           /\ IF Exists(id) THEN UNCHANGED dirorder
              ELSE dirorder' \in Inserted(dirorder, id)
           /\ hist' = [hist EXCEPT ![p].written =
                         IF Exists(id) THEN @ ELSE @ \cup { id }]
    /\ pc' = [pc EXCEPT ![p] = "save_dump"]
    /\ UNCHANGED << anVars, envVars, reports, schedVars, loopVars, repVars, ret, log, glob >>

\* `json.dump(video, f)`, the print, and the return
SaveDump(p) ==
    /\ pc[p] = "save_dump"
    /\ LET id == IdOf(CurVideo(p))
       IN  /\ files' = [files EXCEPT ![id] = FullFile(CurVideo(p))]
           /\ glob' = [glob EXCEPT ![id].writes = @ + 1,
                                   ![id].first = IF glob[id].writes = 0
                                                 THEN CurVideo(p) ELSE @]
           /\ Say(p, << "saved", id >>)
           /\ hist' = [hist EXCEPT ![p].dumps = @ + 1,
                                   ![p].lastSave =
                                     [ called |-> TRUE, id |-> id,
                                       existed |-> glob[id].writes > 0, wrote |-> TRUE ]]
    /\ ret' = [ret EXCEPT ![p] = "None"]
    /\ vi' = [vi EXCEPT ![p] = @ + 1]
    /\ pc' = [pc EXCEPT ![p] = "video"]
    /\ UNCHANGED << anVars, envVars, dirorder, reports, schedVars, src, videos,
                    channel_videos, search_videos, repVars >>

(***************************************************************************)
(* The end of the cycle: the duplicate removal and generate_daily_report   *)
(***************************************************************************)
\* both loops are done: `all_videos = {v['id']: v for v in ...}.values()`
Dedupe(p) ==
    /\ pc[p] = "source"
    /\ src[p] > NumSources
    /\ all_videos' = [all_videos EXCEPT ![p] =
                        DictValues(channel_videos[p] \o search_videos[p], {})]
    /\ Say(p, << "cycle_complete", "" >>)
    /\ pc' = [pc EXCEPT ![p] = "report"]
    /\ UNCHANGED << anVars, envVars, fsVars, schedVars, loopVars, today, report, ret, hist, glob >>

\* a run_monitoring_cycle without its handler: the exception ends the process
CycleFailed_Exits(p) ==
    /\ Say(p, << "traceback", "" >>)
    /\ pc' = [pc EXCEPT ![p] = "exit"]

\* the handler of run_monitoring_cycle: `except Exception as e: print(...)`
CycleFailed(p) ==
    /\ Say(p, << "cycle_error", "" >>)
    /\ pc' = [pc EXCEPT ![p] = "cycle_end"]

\* generate_daily_report up to the report dict: a file json.load cannot
\* parse raises out of the method
ReportLoad(p) ==
    /\ pc[p] = "report"
    /\ today' = [today EXCEPT ![p] = DateOf(now)]
    /\ IF \E id \in Ids : files[id].state = "partial"
       THEN /\ CycleFailed(p)
            /\ UNCHANGED report
       ELSE /\ report' = [report EXCEPT ![p] =
                            BuildReport(DateOf(now), LoadToday(dirorder, files, DateOf(now)), now)]
            /\ pc' = [pc EXCEPT ![p] = "report_write"]
            /\ UNCHANGED log
    /\ UNCHANGED << anVars, envVars, fsVars, schedVars, loopVars, all_videos, ret, hist, glob >>

\* a report that is added to the one the file holds
ReportWrite_Appends(p) ==
    /\ pc[p] = "report_write"
    /\ reports' = [reports EXCEPT ![today[p]] =
                     [ report[p] EXCEPT !.total_videos = @ + reports[today[p]].total_videos,
                                        !.top_videos = reports[today[p]].top_videos \o @ ]]
    /\ Say(p, << "report", "" >>)
    /\ hist' = [hist EXCEPT ![p].reported = TRUE]
    /\ pc' = [pc EXCEPT ![p] = "cycle_end"]
    /\ UNCHANGED << anVars, envVars, files, dirorder, schedVars, loopVars, repVars, ret, glob >>

\* the report file is written over whatever was there
ReportWrite(p) ==
    /\ pc[p] = "report_write"
    /\ reports' = [reports EXCEPT ![today[p]] = report[p]]
    /\ Say(p, << "report", "" >>)
    /\ hist' = [hist EXCEPT ![p].reported = TRUE]
    /\ pc' = [pc EXCEPT ![p] = "cycle_end"]
    /\ UNCHANGED << anVars, envVars, files, dirorder, schedVars, loopVars, repVars, ret, glob >>

\* a job runner that does not schedule the job again after a run
CycleEnd_NoReschedule(p) ==
    /\ pc[p] = "cycle_end"
    /\ IF caller[p] = "once"
       THEN pc' = [pc EXCEPT ![p] = "exit"]
       ELSE IF caller[p] = "initial"
       THEN pc' = [pc EXCEPT ![p] = "run_pending"]
       ELSE pc' = [pc EXCEPT ![p] = "sleep"]
    /\ hist' = [hist EXCEPT ![p].endAt = now]
    /\ UNCHANGED << anVars, envVars, fsVars, schedVars, loopVars, repVars, ret, log, glob >>

\* run_monitoring_cycle returns to main, to start_scheduler or to the job runner
CycleEnd(p) ==
    /\ pc[p] = "cycle_end"
    /\ IF caller[p] = "once"
       THEN /\ pc' = [pc EXCEPT ![p] = "exit"]
            /\ UNCHANGED next_run
       ELSE IF caller[p] = "initial"
       THEN /\ pc' = [pc EXCEPT ![p] = "run_pending"]
            /\ UNCHANGED next_run
       ELSE \* the job ran: it is scheduled again, one interval from now
            /\ next_run' = [next_run EXCEPT ![p] = now + interval_hours]
            /\ pc' = [pc EXCEPT ![p] = "sleep"]
    /\ hist' = [hist EXCEPT ![p].endAt = now]
    /\ UNCHANGED << anVars, envVars, fsVars, mode, has_key, numeric, caller, loopVars, repVars, ret,
                    log, glob >>

(***************************************************************************)
(* start_scheduler: `while True: schedule.run_pending(); time.sleep(60)`   *)
(***************************************************************************)
\* a scheduler that starts the job when it is due, in a thread of its own,
\* whatever the process is doing
RunPending_Threaded(p) ==
    /\ pc[p] \in {"run_pending", "source", "video", "save", "save_open", "save_dump",
                  "report", "report_write"}
    /\ caller[p] # "once"
    /\ now >= next_run[p] /\ hist[p].cycle < MaxCycles
    /\ pc' = [pc EXCEPT ![p] = "cycle_start"]
    /\ caller' = [caller EXCEPT ![p] = "job"]
    /\ UNCHANGED << anVars, envVars, fsVars, mode, has_key, numeric, next_run, loopVars, repVars, ret,
                    log, hist, glob >>

RunPending(p) ==
    /\ pc[p] = "run_pending"
    /\ now >= next_run[p] => hist[p].cycle < MaxCycles
    /\ IF now >= next_run[p]
       THEN /\ pc' = [pc EXCEPT ![p] = "cycle_start"]
            /\ caller' = [caller EXCEPT ![p] = "job"]
       ELSE /\ pc' = [pc EXCEPT ![p] = "sleep"]
            /\ UNCHANGED caller
    /\ UNCHANGED << anVars, envVars, fsVars, mode, has_key, numeric, next_run, loopVars, repVars, ret,
                    log, hist, glob >>

Sleep(p) ==
    /\ pc[p] = "sleep"
    /\ pc' = [pc EXCEPT ![p] = "run_pending"]
    /\ UNCHANGED << anVars, envVars, fsVars, schedVars, loopVars, repVars, ret, log, hist, glob >>

(***************************************************************************)
(* The environment: the clock, and the platform's content                  *)
(***************************************************************************)
\* time passes while a process waits for the platform, sleeps, or is about to
\* read the clock in save_video
Tick ==
    /\ now < MaxHour
    /\ \E p \in Procs : pc[p] \in {"source", "sleep", "save"}
    /\ now' = now + 1
    /\ UNCHANGED << anVars, upstream, fsVars, pc, schedVars, loopVars, repVars, ret, log,
                    hist, glob >>

(***************************************************************************)
(* One monitor process, started by main                                    *)
(***************************************************************************)
InitCommon ==
    /\ now = StartHour
    /\ upstream \in { [ frozen |-> TRUE, world |-> w ] : w \in Worlds }
                   \cup { [ frozen |-> FALSE, world |-> {} ] }
    /\ files = [ id \in Ids |-> NoFile ]
    /\ dirorder = <<>>
    /\ reports = [ d \in Days |-> NoReport ]
    /\ caller = [ p \in Procs |-> "once" ]
    /\ next_run = [ p \in Procs |-> 0 ]
    /\ src = [ p \in Procs |-> 1 ]
    /\ vi = [ p \in Procs |-> 1 ]
    /\ channel_videos = [ p \in Procs |-> <<>> ]
    /\ search_videos = [ p \in Procs |-> <<>> ]
    /\ all_videos = [ p \in Procs |-> <<>> ]
    /\ today = [ p \in Procs |-> DateOf(StartHour) ]
    /\ report = [ p \in Procs |-> NoReport ]
    /\ ret = [ p \in Procs |-> "None" ]
    /\ log = [ p \in Procs |-> <<>> ]
    /\ hist = [ p \in Procs |-> NoHist ]
    /\ glob = [ id \in Ids |-> NoGlob ]

Init ==
    /\ InitCommon
    /\ sample = NoSample
    /\ outcome = NoOutcome
    /\ page = NoPage
    /\ listed = <<>>
    /\ built = NoReport
    /\ pc = [ p \in Procs |-> IF p = 1 THEN "main" ELSE "off" ]
    /\ \E m \in {"once", "continuous"} : mode = [ p \in Procs |-> m ]
    /\ \E k \in BOOLEAN : has_key = [ p \in Procs |-> k ]
    /\ \E i, l \in BOOLEAN :
         numeric = [ p \in Procs |-> [ interval |-> i, limits |-> l ] ]
    /\ videos = [ p \in Procs |-> <<>> ]

Step(p) ==
    \/ Main(p)
    \/ CycleStart(p)
    \/ SkipBlank(p)
    \/ Poll(p)
    \/ PollFail(p)
    \/ Classify(p)
    \/ FeedDone(p)
    \/ SaveCheck(p)
    \/ SaveOpen(p)
    \/ SaveDump(p)
    \/ Dedupe(p)
    \/ ReportLoad(p)
    \/ ReportWrite(p)
    \/ CycleEnd(p)
    \/ RunPending(p)
    \/ Sleep(p)

Next == (\E p \in Procs : Step(p)) \/ Tick

Spec == Init /\ [][Next]_vars

(***************************************************************************)
(* The ContentAnalyzer on its own: one of its methods is called on a video *)
(* dict, as test_analyzer does.                                            *)
(***************************************************************************)
monitorVars ==
    << envVars, fsVars, pc, schedVars, loopVars, repVars, ret, log, hist, glob >>

CallRelevant ==
    /\ outcome.fn = ""
    /\ outcome' =
         IF TextRaises(sample) \/ ChannelRaises(sample)
         THEN [ NoOutcome EXCEPT !.fn = "is_ai_coding_relevant", !.raised = TRUE ]
         ELSE [ NoOutcome EXCEPT !.fn = "is_ai_coding_relevant",
                                 !.relevant = is_ai_coding_relevant(Plain(sample)) ]
    /\ UNCHANGED << sample, page, aggVars, monitorVars >>

CallScore ==
    /\ outcome.fn = ""
    /\ outcome' =
         IF TextRaises(sample) \/ ChannelRaises(sample) \/ CountRaises(sample)
         THEN [ NoOutcome EXCEPT !.fn = "calculate_relevance_score", !.raised = TRUE ]
         ELSE [ NoOutcome EXCEPT !.fn = "calculate_relevance_score",
                                 !.score = calculate_relevance_score(Plain(sample)) ]
    /\ UNCHANGED << sample, page, aggVars, monitorVars >>

CallCategorize ==
    /\ outcome.fn = ""
    /\ outcome' =
         IF TextRaises(sample)
         THEN [ NoOutcome EXCEPT !.fn = "categorize_video", !.raised = TRUE ]
         ELSE [ NoOutcome EXCEPT !.fn = "categorize_video",
                                 !.categories = categorize_video(Plain(sample)) ]
    /\ UNCHANGED << sample, page, aggVars, monitorVars >>

InitAnalyzer ==
    /\ InitCommon
    /\ ~upstream.frozen
    /\ pc = [ p \in Procs |-> "off" ]
    /\ mode = [ p \in Procs |-> "once" ]
    /\ has_key = [ p \in Procs |-> TRUE ]
    /\ numeric = [ p \in Procs |-> [ interval |-> TRUE, limits |-> TRUE ] ]
    /\ videos = [ p \in Procs |-> <<>> ]
    /\ sample \in Samples
    /\ outcome = NoOutcome
    /\ page = NoPage
    /\ listed = <<>>
    /\ built = NoReport

NextAnalyzer == CallRelevant \/ CallScore \/ CallCategorize

SpecAnalyzer == InitAnalyzer /\ [][NextAnalyzer]_vars

(***************************************************************************)
(* The aggregation of generate_daily_report on its own: the report dict it *)
(* makes of a list of loaded videos.                                       *)
(***************************************************************************)
MaxListed == 3

\* records as save_video stores them, with scores that tie
StoredRecords ==
    { [ key |-> k, annotated |-> TRUE, discovered_at |-> t, categories |-> c,
        relevance_score |-> sc ] :
        k \in ItemKeys, t \in { StartHour - 1, StartHour },
        c \in { <<>>, <<"claude">>, <<"claude", "tutorials">> },
        sc \in { Analysis["B1"].relevance_score, Analysis["A2"].relevance_score } }

\* one file per id, in any order of the directory
DayLists ==
    UNION { { l \in [ 1..n -> StoredRecords ] :
                \A i, j \in 1..n : IdOf(l[i]) = IdOf(l[j]) => i = j } :
            n \in 0..MaxListed }

Aggregate ==
    /\ ~built.written
    /\ built' = BuildReport(DateOf(StartHour), listed, StartHour)
    /\ UNCHANGED << sample, outcome, page, listed, monitorVars >>

InitReport ==
    /\ InitCommon
    /\ ~upstream.frozen
    /\ pc = [ p \in Procs |-> "off" ]
    /\ mode = [ p \in Procs |-> "once" ]
    /\ has_key = [ p \in Procs |-> TRUE ]
    /\ numeric = [ p \in Procs |-> [ interval |-> TRUE, limits |-> TRUE ] ]
    /\ videos = [ p \in Procs |-> <<>> ]
    /\ sample = NoSample
    /\ outcome = NoOutcome
    /\ page = NoPage
    /\ listed \in DayLists
    /\ built = NoReport

NextReport == Aggregate

SpecReport == InitReport /\ [][NextReport]_vars

(***************************************************************************)
(* The store and the report directory can fail: open() or json.dump raise  *)
(* OSError (no space, no permission, the directory is gone).               *)
(***************************************************************************)
\* the handler of the channel / search term loop: `except Exception as e:
\* print(...)`, and the loop goes on with the next channel or search term
Remaining(p) ==
    { << IdOf(videos[p][i]), src[p] >> : i \in (vi[p] + 1)..Len(videos[p]) }

\* a handler inside `for video in videos`: the loop goes on with the next video
SourceFailed_NextVideo(p) ==
    /\ Say(p, << "source_error", SourceName(src[p]) >>)
    /\ hist' = [hist EXCEPT ![p].storeFailed = @ \cup { src[p] },
                            ![p].abandoned = @ \cup Remaining(p),
                            ![p].dirty = TRUE]
    /\ ret' = [ret EXCEPT ![p] = "raised"]
    /\ vi' = [vi EXCEPT ![p] = @ + 1]
    /\ pc' = [pc EXCEPT ![p] = "video"]
    /\ UNCHANGED src

SourceFailed(p) ==
    /\ Say(p, << "source_error", SourceName(src[p]) >>)
    /\ hist' = [hist EXCEPT ![p].storeFailed = @ \cup { src[p] },
                            ![p].abandoned = @ \cup Remaining(p),
                            ![p].dirty = TRUE]
    /\ ret' = [ret EXCEPT ![p] = "raised"]
    /\ src' = [src EXCEPT ![p] = @ + 1]
    /\ pc' = [pc EXCEPT ![p] = "source"]
    /\ UNCHANGED vi

\* `open(filename, 'w')` raises: no file is made
SaveOpenFail(p) ==
    /\ pc[p] = "save_open"
    /\ SourceFailed(p)
    /\ UNCHANGED << anVars, envVars, fsVars, schedVars, videos, channel_videos,
                    search_videos, repVars, glob >>

\* `json.dump(video, f)` raises: the file stays as open() and the part of the
\* dump that got through left it
SaveDumpFail(p) ==
    /\ pc[p] = "save_dump"
    /\ SourceFailed(p)
    /\ UNCHANGED << anVars, envVars, fsVars, schedVars, videos, channel_videos,
                    search_videos, repVars, glob >>

\* writing the report raises, at open() (the file is as it was) or in
\* json.dump (the file holds no report any more)
ReportWriteFail(p) ==
    /\ pc[p] = "report_write"
    /\ \E r \in { reports[today[p]], NoReport } :
         reports' = [reports EXCEPT ![today[p]] = r]
    /\ CycleFailed(p)
    /\ UNCHANGED << anVars, envVars, files, dirorder, schedVars, loopVars, repVars, ret,
                    hist, glob >>

Fault(p) ==
    \/ SaveOpenFail(p)
    \/ SaveDumpFail(p)
    \/ ReportWriteFail(p)

NextFault == Next \/ (\E p \in Procs : Fault(p))

\* `self.is_ai_coding_content(video)` raises (a field of the video is None):
\* the same handler as for a failing save_video
ClassifyFail(p) ==
    /\ pc[p] = "video"
    /\ vi[p] <= Len(videos[p])
    /\ SourceFailed(p)
    /\ UNCHANGED << anVars, envVars, fsVars, schedVars, videos, channel_videos,
                    search_videos, repVars, glob >>

\* what can raise inside the try of one channel or one search term
SourceFault(p) ==
    \/ ClassifyFail(p)
    \/ SaveOpenFail(p)
    \/ SaveDumpFail(p)

NextSource == Next \/ (\E p \in Procs : SourceFault(p))

\* the platform changes between any two calls: every sequence of listings
InitFault ==
    /\ Init
    /\ ~upstream.frozen
    /\ has_key[1]
    /\ numeric[1].interval /\ numeric[1].limits

SpecFault == InitFault /\ [][NextFault]_vars

\* the faults of the source loops: the classifier and the store raise
SpecSource == InitFault /\ [][NextSource]_vars

(***************************************************************************)
(* The dashboard: a second program that reads the videos directory the     *)
(* monitor writes, whenever a browser asks for /videos.  The route builds  *)
(* its page in one step, between two steps of the monitor, and the page is *)
(* gone once it is sent.                                                   *)
(***************************************************************************)
MaxWaitDays == 31

\* load_videos: every file of the directory that json.load can read; a file
\* it cannot read is printed ("Error loading ...") and left out.  Without
\* the directory the answer is [], as it is with an empty directory.
RECURSIVE load_videos(_, _)
load_videos(order, fs) ==
    IF Len(order) = 0 THEN <<>>
    ELSE (IF fs[order[1]].state = "full" THEN << fs[order[1]].video >> ELSE <<>>)
         \o load_videos(Tail(order), fs)

\* the `except Exception` of load_videos: printed, not raised
ErrorsLoading(order, fs) ==
    [ printed |-> { order[i] : i \in { j \in 1..Len(order) : fs[order[j]].state = "partial" } },
      raised |-> FALSE ]

InSeq(x, xs) == \E i \in 1..Len(xs) : xs[i] = x

\* ContentAnalyzer.filter_by_category
filter_by_category(vs, category) ==
    LET Test(v) == InSeq(category, v.categories) IN SelectSeq(vs, Test)

\* ContentAnalyzer.filter_by_relevance
filter_by_relevance(vs, min_score) ==
    LET Test(v) == v.relevance_score >= min_score IN SelectSeq(vs, Test)

\* the items whose title, description or channel title holds the search text
SearchHits ==
    [ s \in { q.search : q \in Queries } |->
        { k \in ItemKeys :
            \/ Contains(Lower(s), Lower(Catalog[k].title))
            \/ Contains(Lower(s), Lower(Catalog[k].description))
            \/ Contains(Lower(s), Lower(Catalog[k].channel_title)) } ]

filter_by_search(vs, search) ==
    LET Test(v) == v.key \in SearchHits[search] IN SelectSeq(vs, Test)

\* `discovered_at >= cutoff_date`, both ISO timestamps
filter_by_days(vs, days, at) ==
    LET Test(v) == v.discovered_at >= at - days * HoursPerDay IN SelectSeq(vs, Test)

\* the /videos route
VideosPage(q) ==
    LET all_vs    == load_videos(dirorder, files)
        min_score == DictGet(q.min_score, 0).val
        days      == DictGet(q.days, LookbackDefault).val
        by_cat    == IF q.category # "" THEN filter_by_category(all_vs, q.category)
                     ELSE all_vs
        by_score  == IF min_score > 0 THEN filter_by_relevance(by_cat, min_score)
                     ELSE by_cat
        by_search == IF q.search # "" THEN filter_by_search(by_score, q.search)
                     ELSE by_score
        by_days   == IF days > 0 THEN filter_by_days(by_search, days, now)
                     ELSE by_search
    IN  /\ ~page.asked
        /\ page' = [ asked |-> TRUE, query |-> q, at |-> now,
                     videos |-> SortedDesc(by_days),
                     printed |-> ErrorsLoading(dirorder, files).printed,
                     raised |-> ErrorsLoading(dirorder, files).raised ]
        /\ UNCHANGED << sample, outcome, aggVars, monitorVars >>

\* render_template has returned and the response is sent
Respond ==
    /\ page.asked
    /\ page' = NoPage
    /\ UNCHANGED << sample, outcome, aggVars, monitorVars >>

\* the monitor has ended and days go by
Elapse ==
    /\ \A p \in Procs : pc[p] \in {"off", "exit"}
    /\ \E p \in Procs : pc[p] = "exit"
    /\ now <= MaxHour
    /\ \E d \in {1, MaxWaitDays} : now' = now + d * HoursPerDay
    /\ UNCHANGED << anVars, upstream, fsVars, pc, schedVars, loopVars, repVars, ret, log,
                    hist, glob >>

InitDash ==
    /\ InitFault
    /\ mode[1] = "once"

NextDash ==
    \/ ~page.asked /\ NextFault
    \/ ~page.asked /\ Elapse
    \/ \E q \in Queries : VideosPage(q)
    \/ Respond

SpecDash == InitDash /\ [][NextDash]_vars

(***************************************************************************)
(* The scheduler under fairness: the process goes on executing, and time   *)
(* passes while it sleeps.                                                 *)
(***************************************************************************)
\* a continuous run; what the platform holds stays as it is during the run
InitLive ==
    /\ Init
    /\ upstream.frozen
    /\ has_key[1]
    /\ numeric[1].interval /\ numeric[1].limits
    /\ mode[1] = "continuous"

SpecLive ==
    /\ InitLive
    /\ [][NextFault]_vars
    /\ WF_vars(Step(1) \/ Fault(1))
    /\ SF_vars(Tick)

(***************************************************************************)
(* Signals.  The program installs no handler: SIGINT raises                *)
(* KeyboardInterrupt in the main thread wherever it is, which no `except   *)
(* Exception` catches, and SIGTERM ends the process at once.  Either way   *)
(* the process is over at the statement it was executing.                  *)
(***************************************************************************)
Interrupt(p) ==
    /\ pc[p] \notin {"off", "exit"}
    /\ pc' = [pc EXCEPT ![p] = "exit"]
    /\ hist' = [hist EXCEPT ![p].signalAt = pc[p]]
    /\ Say(p, << "traceback", "KeyboardInterrupt" >>)
    /\ UNCHANGED << anVars, envVars, fsVars, schedVars, loopVars, repVars, ret, glob >>

NextSignal == Next \/ (\E p \in Procs : Interrupt(p))

SpecSignal == Init /\ [][NextSignal]_vars

(***************************************************************************)
(* Two monitor processes on one data directory (two `--once` runs that     *)
(* overlap).  Each has run its cycle up to the search: the channels gave   *)
(* nothing relevant and the search has just returned.  From there the two  *)
(* processes go through their lists, interleaved in every order.           *)
(***************************************************************************)
SearchSource == NumSources

AtSearchHist ==
    [ NoHist EXCEPT !.cycle = 1, !.polled = {1, 3, SearchSource}, !.dirty = TRUE,
                    !.startDay = DateOf(StartHour), !.startAt = StartHour ]

AtSearchLog ==
    << << "cycle_start", "" >>, << "checking", "UCa" >>, << "checking", "UCb" >>,
       << "checking", "ai coding" >> >>

InitConc ==
    /\ now = StartHour
    /\ upstream = [ frozen |-> FALSE, world |-> {} ]
    /\ files = [ id \in Ids |-> NoFile ]
    /\ dirorder = <<>>
    /\ reports = [ d \in Days |-> NoReport ]
    /\ pc = [ p \in Procs |-> "video" ]
    /\ mode = [ p \in Procs |-> "once" ]
    /\ has_key = [ p \in Procs |-> TRUE ]
    /\ numeric = [ p \in Procs |-> [ interval |-> TRUE, limits |-> TRUE ] ]
    /\ caller = [ p \in Procs |-> "once" ]
    /\ next_run = [ p \in Procs |-> 0 ]
    /\ src = [ p \in Procs |-> SearchSource ]
    /\ videos \in [ Procs -> { Listing(SearchSource, w) : w \in Worlds } ]
    /\ vi = [ p \in Procs |-> 1 ]
    /\ channel_videos = [ p \in Procs |-> <<>> ]
    /\ search_videos = [ p \in Procs |-> <<>> ]
    /\ all_videos = [ p \in Procs |-> <<>> ]
    /\ today = [ p \in Procs |-> DateOf(StartHour) ]
    /\ report = [ p \in Procs |-> NoReport ]
    /\ ret = [ p \in Procs |-> "None" ]
    /\ log = [ p \in Procs |-> AtSearchLog ]
    /\ hist = [ p \in Procs |-> AtSearchHist ]
    /\ glob = [ id \in Ids |-> NoGlob ]
    /\ sample = NoSample
    /\ outcome = NoOutcome
    /\ page = NoPage
    /\ listed = <<>>
    /\ built = NoReport

NextConc ==
    \/ \E p \in Procs : \/ Classify(p)
                        \/ SaveCheck(p)
                        \/ SaveOpen(p)
                        \/ SaveDump(p)
    \/ Tick

SpecConc == InitConc /\ [][NextConc]_vars

\* The state each process of SpecConc starts in is one a monitor process gets to.
AtSearchNotReached ==
    ~ ( /\ pc[1] = "video" /\ src[1] = SearchSource /\ vi[1] = 1
        /\ hist[1] = AtSearchHist /\ log[1] = AtSearchLog
        /\ channel_videos[1] = <<>> /\ search_videos[1] = <<>>
        /\ caller[1] = "once" /\ now = StartHour
        /\ \A id \in Ids : ~Exists(id) )

(***************************************************************************)
(* Properties                                                              *)
(***************************************************************************)
Truthy(v) == v = "True"

CountId(vs, id) == Cardinality({ i \in 1..Len(vs) : IdOf(vs[i]) = id })

RealSources == { i \in 1..NumSources : SourceName(i) # "" }

\* C1: when two executions of save_video for one video id interleave, exactly
\* one of them writes: the file is written once, the record of the first
\* writer stays, and the execution that comes second writes nothing and
\* reports stored = false.
C1_FirstWriterWins ==
    \A id \in Ids :
        /\ glob[id].writes <= 1
        /\ files[id].state = "full" => files[id].video = glob[id].first
        /\ \A p \in Procs :
             hist[p].lastSave.called /\ hist[p].lastSave.id = id /\ hist[p].lastSave.existed
               => ~hist[p].lastSave.wrote /\ ~Truthy(ret[p])

AfterDedupe(p) == pc[p] \in {"report", "report_write", "cycle_end"} /\ hist[p].cycle > 0

\* C3: the items a cycle collects and counts as new are exactly the items whose
\* record the cycle wrote first; an item that had a record before the cycle is
\* not among them.
C3_NewIsFirstWritten ==
    \A p \in Procs :
        AfterDedupe(p) /\ Len(log[p]) > 0 /\ Last(log[p])[1] # "cycle_error"
          => { IdOf(all_videos[p][i]) : i \in 1..Len(all_videos[p]) } = hist[p].written

\* C4: when two sources of one cycle both yield a relevant item with one id,
\* the cycle's collection of new items holds that id once and the store holds
\* one record for it.
C4_OncePerId ==
    \A p \in Procs : \A id \in Ids :
        ( /\ AfterDedupe(p)
          /\ \E a, b \in RealSources :
               a # b /\ << id, a >> \in hist[p].yielders /\ << id, b >> \in hist[p].yielders )
          => /\ CountId(all_videos[p], id) = 1
             /\ files[id].state = "full"
             /\ glob[id].writes = 1

C4_Witness ==
    \E p \in Procs : \E id \in Ids :
        /\ AfterDedupe(p)
        /\ \E a, b \in RealSources :
             a # b /\ << id, a >> \in hist[p].yielders /\ << id, b >> \in hist[p].yielders
        /\ CountId(channel_videos[p] \o search_videos[p], id) = 2

\* the two cycles of process p, the previous and the current one, were given
\* the same candidates by every source and ran on one calendar day
SameInputsSameDay(p) ==
    /\ pc[p] = "cycle_end"
    /\ hist[p].cycle >= 2
    /\ ~hist[p].prevDirty /\ ~hist[p].dirty
    /\ hist[p].prevReport.written /\ hist[p].reported
    /\ hist[p].prevStartDay = today[p]

\* C5: of two consecutive cycles on one calendar day in which every source
\* yields the same candidates, the second writes no video record, and its
\* report has the total, the category counts, the top_videos sequence and the
\* channel set of the report of the first.
C5_SecondCycleIdempotent ==
    \A p \in Procs :
        SameInputsSameDay(p)
          => /\ hist[p].dumps = 0
             /\ hist[p].written = {}
             /\ report[p].total_videos = hist[p].prevReport.total_videos
             /\ report[p].categories = hist[p].prevReport.categories
             /\ report[p].top_videos = hist[p].prevReport.top_videos
             /\ report[p].channels = hist[p].prevReport.channels
             /\ reports[today[p]] = report[p]

C5_Witness ==
    \E p \in Procs :
        /\ SameInputsSameDay(p)
        /\ report[p].total_videos = 2
        /\ hist[p].relevant # {}

\* the log shows the API error of source a: its "checking" line, then the error
LogShowsApiError(p, a) ==
    \E i \in 1..(Len(log[p]) - 1) :
        /\ log[p][i] = << "checking", SourceName(a) >>
        /\ log[p][i + 1] = << "api_error", "" >>

\* C6: when the API call of a source A fails in a cycle, the cycle still polls
\* every other source B, stores the relevant items they yield, gets to its
\* report, and the error is in the log with the source it belongs to.
C6_SourceFailureIsolated ==
    \A p \in Procs : \A a \in RealSources :
        pc[p] = "cycle_end" /\ a \in hist[p].failed
          => /\ hist[p].polled = RealSources
             /\ \A id \in hist[p].relevant : files[id].state = "full"
             /\ hist[p].reported
             /\ reports[today[p]] = report[p]
             /\ LogShowsApiError(p, a)

C6_Witness ==
    \E p \in Procs : \E a, b \in RealSources : \E id \in Ids :
        /\ pc[p] = "cycle_end"
        /\ a \in hist[p].failed /\ b \notin hist[p].failed /\ a < b
        /\ << id, b >> \in hist[p].yielders
        /\ id \in hist[p].written

\* a process is between two cycles, or has finished
Idle(p) == pc[p] \in {"cycle_end", "run_pending", "sleep", "exit"}

\* C9: a record for an id is in the store if and only if a cycle classified an
\* item with that id as relevant: nothing classified not relevant is written,
\* and what a cycle classified relevant has its record when the cycle ends.
C9_StoredIffRelevant ==
    /\ \A id \in Ids :
         Exists(id) => /\ glob[id].classified
                       /\ Analysis[files[id].video.key].relevant
    /\ \A p \in Procs : \A id \in Ids :
         /\ pc[p] = "cycle_end" /\ id \in hist[p].relevant => files[id].state = "full"
         /\ Idle(p) /\ glob[id].classified => files[id].state = "full"

C9_Witness ==
    /\ pc[1] = "cycle_end"
    /\ hist[1].cycle = 2
    /\ files["vidA"].state = "full"
    /\ ~Exists("vidN")
    /\ \E i \in 1..Len(log[1]) : log[1][i] = << "checking", "UCb" >>
    /\ "vidB" \in hist[1].written

\* C10: the store only grows and its records are frozen: no step deletes a
\* record or changes a field of it, also when the video comes again with
\* other metadata or counts.
C10_RecordsFrozen ==
    [][ \A id \in Ids : files[id].state = "full" => files'[id] = files[id] ]_vars

\* C10's case: the record of vidA was written from one edition, and a later
\* cycle has handled the other edition of vidA
C10_Witness ==
    \E p \in Procs :
        /\ files["vidA"].state = "full"
        /\ hist[p].lastSave.called /\ hist[p].lastSave.id = "vidA"
        /\ hist[p].lastSave.existed
        /\ hist[p].cycle = 2
        /\ Len(CurList(p)) > 0
        /\ IdOf(CurVideo(p)) = "vidA"
        /\ CurVideo(p).key # files["vidA"].video.key
        /\ Analysis[CurVideo(p).key].relevance_score
             # files["vidA"].video.relevance_score

LogHas(p, entry) == \E i \in 1..Len(log[p]) : log[p][i] = entry

\* the cycle of p has ended, and something in it failed
FailedCycle(p) ==
    /\ pc[p] = "cycle_end"
    /\ \/ hist[p].failed # {}
       \/ hist[p].storeFailed # {}
       \/ LogHas(p, << "cycle_error", "" >>)

\* the job's next run is within the hours and the cycles of the model
RetryDue(p) ==
    /\ hist[p].cycle < MaxCycles
    /\ IF caller[p] = "initial" THEN next_run[p] <= MaxHour
       ELSE now + interval_hours <= MaxHour

\* C7: in continuous mode no failure inside a cycle (a source, the store, the
\* report) ends the scheduler loop: the process does not exit, and after a
\* failed cycle the next cycle eventually starts.
C7_SchedulerSurvives ==
    /\ [](pc[1] # "exit")
    /\ (FailedCycle(1) /\ RetryDue(1)) ~> (pc[1] = "cycle_start")

\* the job starts the second cycle after a first one in which the store or
\* the report failed
C7_Witness ==
    /\ pc[1] = "cycle_start"
    /\ caller[1] = "job"
    /\ hist[1].cycle = 1
    /\ hist[1].storeFailed # {}
    /\ LogHas(1, << "cycle_error", "" >>)

\* C8: once a write to the store has failed in a cycle, that cycle is aborted:
\* it polls no further source and builds no report.
C8_AbortsCycle ==
    \A p \in Procs : \A a \in hist[p].storeFailed :
        /\ \A b \in hist[p].polled : b <= a
        /\ pc[p] # "report_write"
        /\ ~hist[p].reported

\* What the cycle does with a failed write: the handler of the source being
\* polled catches it and logs it with that source, every source after it is
\* still polled, and the cycle gets to its report step.
StoreFailureHandledBySource ==
    \A p \in Procs : \A a \in hist[p].storeFailed :
        /\ LogHas(p, << "source_error", SourceName(a) >>)
        /\ ~LogHas(p, << "cycle_error", "" >>) => pc[p] # "cycle_end" \/ hist[p].reported
        /\ pc[p] \in {"report", "report_write", "cycle_end"}
             => /\ hist[p].polled = RealSources
                /\ LogHas(p, << "cycle_complete", "" >>)

\* a cycle in which a write failed in the first channel has stored a video of
\* a later source and written its report
StoreFailureThenReport ==
    \E p \in Procs : \E b \in RealSources : \E id \in Ids :
        /\ pc[p] = "cycle_end"
        /\ 1 \in hist[p].storeFailed
        /\ b > 1 /\ b \in hist[p].polled
        /\ << id, b >> \in hist[p].yielders
        /\ files[id].state = "full"
        /\ hist[p].reported

\* a save_video call of some process is between open() and the end of json.dump
\* on the file of id
WriteInFlight(id) ==
    \E p \in Procs : pc[p] = "save_dump" /\ IdOf(CurVideo(p)) = id

\* C11: a write is atomic: once execution has left save_video, by its return
\* or by an error while the record is serialised, the id has no record or a
\* complete one; no truncated file stays behind for os.path.exists to find
\* and for json.load to fail on.
C11_AtomicWrite ==
    \A id \in Ids : files[id].state = "partial" => WriteInFlight(id)

\* the places of a process inside a cycle that has begun its work
InCycle ==
    {"source", "video", "save", "save_open", "save_dump", "report", "report_write"}

\* C12: in continuous mode a shutdown signal that arrives while a cycle is in
\* flight lets the cycle finish (every source polled, the report written)
\* before the process exits, and no cycle is started after the signal.
C12_CooperativeShutdown ==
    \A p \in Procs :
        mode[p] = "continuous" /\ hist[p].signalAt # ""
          => /\ hist[p].signalAt # "cycle_start" => pc[p] # "cycle_start"
             /\ hist[p].signalAt \in InCycle /\ pc[p] = "exit"
                  => hist[p].polled = RealSources /\ hist[p].reported

\* C13: with --once the monitor runs one monitoring cycle and returns, whether
\* the cycle succeeds or fails: it never runs a second cycle, never gets into
\* the loop of start_scheduler, and the end of its cycle is followed by the
\* end of the process.
C13_OnceRunsOneCycle ==
    /\ [](\A p \in Procs :
            mode[p] = "once" /\ pc[p] # "off"
              => /\ hist[p].cycle <= 1
                 /\ pc[p] \notin {"run_pending", "sleep"}
                 /\ caller[p] = "once"
                 /\ pc[p] = "exit" /\ has_key[p] => hist[p].cycle = 1)
    /\ [][\A p \in Procs :
            mode[p] = "once" /\ pc[p] = "cycle_end" /\ pc'[p] # pc[p]
              => pc'[p] = "exit"]_vars

\* a --once run has returned after a cycle in which a write to the store failed
\* and the report could not be made
C13_Witness ==
    /\ mode[1] = "once"
    /\ pc[1] = "exit"
    /\ hist[1].cycle = 1
    /\ hist[1].storeFailed # {}
    /\ LogHas(1, << "cycle_error", "" >>)

\* the scheduled job is about to start a cycle
JobStarts(p) == pc[p] = "cycle_start" /\ caller[p] = "job"

\* C14: in continuous mode the first cycle starts when the scheduler starts, and
\* between the end of each cycle and the start of the next the scheduler is
\* suspended for the whole interval; every cycle is followed by another.
C14_FullIntervalAfterEachCycle ==
    /\ [](\A p \in Procs :
            /\ pc[p] = "cycle_start" /\ caller[p] = "initial"
                 => hist[p].cycle = 0 /\ now = StartHour
            /\ JobStarts(p) => now >= hist[p].endAt + interval_hours)
    /\ (pc[1] = "cycle_end" /\ RetryDue(1)) ~> (pc[1] = "cycle_start")

\* C14, amended: the job is scheduled before the initial cycle runs, so the
\* second cycle starts no earlier than one interval after the scheduler
\* started (the time the initial cycle took is part of that interval); every
\* later cycle starts no earlier than one interval after the end of the cycle
\* before it; every cycle is followed by another.
C14_IntervalFromScheduling ==
    /\ [](\A p \in Procs :
            /\ pc[p] = "cycle_start" /\ caller[p] = "initial"
                 => hist[p].cycle = 0 /\ now = StartHour
            /\ JobStarts(p) /\ hist[p].cycle = 1
                 => now >= hist[p].startAt + interval_hours
            /\ JobStarts(p) /\ hist[p].cycle > 1
                 => now >= hist[p].endAt + interval_hours)
    /\ (pc[1] = "cycle_end" /\ RetryDue(1)) ~> (pc[1] = "cycle_start")

\* the second cycle starts right after an initial cycle that took an hour,
\* and: the third cycle starts one interval after the end of the second
C14_Witness ==
    /\ JobStarts(1)
    /\ hist[1].cycle = 2
    /\ now = hist[1].endAt + interval_hours
    /\ hist[1].startAt = StartHour + interval_hours
    /\ hist[1].reported

\* the process of p ran no cycle and never will: nothing was polled or
\* written, and it is not in the scheduler
NeverRan(p) ==
    /\ pc[p] \in {"main", "exit"}
    /\ hist[p].cycle = 0
    /\ hist[p].polled = {}
    /\ \A id \in Ids : files[id].state = "none"
    /\ \A d \in Days : reports[d] = NoReport

\* C15: when the API key is missing or one of the integer settings (interval,
\* maximum of results, lookback) is not a number, the process stops before
\* any cycle: no source is polled, nothing is written, no scheduler loop.
C15_ConfigErrorStopsStartup ==
    ~has_key[1] \/ ~numeric[1].interval \/ ~numeric[1].limits => NeverRan(1)

\* C15, amended: the same for a missing API key and a non-numeric maximum of
\* results or lookback in both modes, and for a non-numeric interval in
\* continuous mode; with --once the interval is not read and the cycle runs.
C15_ConfigErrorStopsWhereRead ==
    \/ ~has_key[1]
    \/ ~numeric[1].limits
    \/ ~numeric[1].interval /\ mode[1] = "continuous"
    => NeverRan(1)

\* a continuous run with a key has ended on CHECK_INTERVAL_HOURS
C15_Witness ==
    /\ pc[1] = "exit"
    /\ mode[1] = "continuous"
    /\ has_key[1] /\ numeric[1].limits /\ ~numeric[1].interval
    /\ LogHas(1, << "traceback", "CHECK_INTERVAL_HOURS" >>)

\* C16: calculate_relevance_score returns an integer from 0 to 100 for every
\* item, whatever its keyword matches, channel and counts, and so does the
\* relevance_score of every record in the store.
C16_ScoreInRange ==
    /\ outcome.fn = "calculate_relevance_score" /\ ~outcome.raised
         => outcome.score \in 0..100
    /\ \A id \in Ids :
         files[id].state = "full" => files[id].video.relevance_score \in 0..100

\* the score of an item whose points add up to more than 100
C16_Witness ==
    /\ outcome.fn = "calculate_relevance_score" /\ ~outcome.raised
    /\ RawScore(Plain(sample)) > 100
    /\ outcome.score = 100

\* the match counts of the video dict handed to the analyzer
HighCount == MatchCount(ai_coding_keywords, ContentOf(Plain(sample)))

ACount == MatchCount(ai_keywords, ContentOf(Plain(sample)))

BCount == MatchCount(coding_keywords, ContentOf(Plain(sample)))

WeightedTotal ==
    3 * HighCount + ACount + BCount + (IF IsTrusted(Plain(sample)) THEN 2 ELSE 0)

\* C17: is_ai_coding_relevant returns true exactly when highCount >= 1, or
\* aCount > 0 and bCount > 0 and 3*highCount + aCount + bCount + (2 if the
\* channel is trusted) >= 3; an item with highCount = 0 and aCount = 0 is
\* never relevant, whatever its coding matches, channel or counts.
C17_RelevantIffFormula ==
    outcome.fn = "is_ai_coding_relevant" /\ ~outcome.raised
      => /\ outcome.relevant
              <=> (HighCount >= 1 \/ (ACount > 0 /\ BCount > 0 /\ WeightedTotal >= 3))
         /\ HighCount = 0 /\ ACount = 0 => ~outcome.relevant

\* an AI match and a coding match on an untrusted channel, total below 3
C17_Witness ==
    /\ outcome.fn = "is_ai_coding_relevant" /\ ~outcome.raised
    /\ HighCount = 0 /\ ACount > 0 /\ BCount > 0 /\ WeightedTotal < 3
    /\ ~outcome.relevant

\* coding matches on a trusted channel with many views, and no AI match
C17_WitnessNoAi ==
    /\ outcome.fn = "is_ai_coding_relevant" /\ ~outcome.raised
    /\ HighCount = 0 /\ ACount = 0 /\ BCount > 0 /\ IsTrusted(Plain(sample))
    /\ sample.view_count = Value(150000)
    /\ ~outcome.relevant

\* an AI match and a coding match that the trusted channel lifts to 3
C17_WitnessTrusted ==
    /\ outcome.fn = "is_ai_coding_relevant" /\ ~outcome.raised
    /\ HighCount = 0 /\ WeightedTotal - 2 < 3
    /\ outcome.relevant

\* C18: classification, scoring and categorisation never raise: a title,
\* description, tag list or channel name that is absent, empty or None is
\* treated as the empty string and the method returns its result.
C18_NeverRaises == ~CountRaises(sample) => ~outcome.raised

\* a missing key is read as the default and the method returns
C18_AbsentIsEmpty ==
    /\ sample.title = NoText /\ sample.tags = NoTags /\ sample.channel_title = NoText
    /\ outcome.fn = "is_ai_coding_relevant" /\ ~outcome.raised

Unreadable == { id \in Ids : files[id].state = "partial" }

\* C19: when a stored record is unreadable, every read of the store reports
\* an I/O error to its caller: the /videos route does not answer with a page
\* that leaves the record out, and the report is not built without it.
C19_ReadErrorsSurface ==
    /\ page.asked /\ Unreadable # {} => page.raised
    /\ \A p \in Procs : pc[p] = "report_write" => Unreadable = {}

\* the report's read of an unreadable record ends the cycle with a traceback
C19_ReportReadFails ==
    \E p \in Procs :
        /\ Unreadable # {}
        /\ pc[p] = "exit"
        /\ LogHas(p, << "cycle_error", "" >>)
        /\ ~hist[p].reported

\* the ids on the page
Listed == { IdOf(page.videos[i]) : i \in 1..Len(page.videos) }

\* the ids save_video has written
Written == { id \in Ids : glob[id].writes > 0 }

RoundTrip ==
    /\ Listed = Written
    /\ \A i \in 1..Len(page.videos) : page.videos[i] = files[IdOf(page.videos[i])].video

\* C20: /videos with no parameters, asked at any time after items were
\* written through save_video, lists exactly the ids that were written, each
\* with the fields that were stored.
C20_RoundTrip == page.asked /\ page.query = NoQuery => RoundTrip

\* the same request with days=0, which asks for no window
C20_RoundTripUnbounded ==
    page.asked /\ page.query = [NoQuery EXCEPT !.days = Value(0)] => RoundTrip

\* records are listed a day after they were written, and with days=0 also a
\* month after
C20_ListedLater ==
    /\ page.asked /\ Written # {} /\ RoundTrip
    /\ page.at > MaxHour

\* how many videos of the list carry category c
Carrying(c) ==
    Cardinality({ i \in 1..Len(listed) :
                    \E j \in 1..Len(listed[i].categories) : listed[i].categories[j] = c })

CategoryVocabulary == { category_names[i] : i \in 1..Len(category_names) }

\* C21: the report is an aggregation of the day's list: total is the number
\* of items, each category maps to the number of items carrying it (an item
\* with N categories adds 1 to N counters, a category with no item is
\* absent), channels is the set of channel names; for the empty list total
\* is 0 and the category map, the top list and the channel set are empty.
C21_ReportAggregates ==
    built.written
      => /\ built.total_videos = Len(listed)
         /\ DOMAIN built.categories = { c \in CategoryVocabulary : Carrying(c) > 0 }
         /\ \A c \in DOMAIN built.categories : built.categories[c] = Carrying(c)
         /\ built.channels =
              { Catalog[listed[i].key].channel_title : i \in 1..Len(listed) }
         /\ listed = <<>>
              => /\ built.total_videos = 0
                 /\ DOMAIN built.categories = {}
                 /\ built.top_videos = <<>>
                 /\ built.channels = {}

\* three videos, one with two categories, one category counted twice
C21_Witness ==
    /\ built.written
    /\ Len(listed) >= 3
    /\ \E i \in 1..Len(listed) : Len(listed[i].categories) = 2
    /\ \E c \in DOMAIN built.categories : built.categories[c] = 2

\* the report of the empty list
C21_WitnessEmpty == built.written /\ listed = <<>> /\ built.total_videos = 0

\* the ids in alphabetical order
IdRank == [ vidA |-> 1, vidB |-> 2, vidN |-> 3 ]

\* v comes before w in the order the top list is to have
Before(v, w) ==
    \/ v.relevance_score > w.relevance_score
    \/ /\ v.relevance_score = w.relevance_score
       /\ \/ v.discovered_at > w.discovered_at
          \/ /\ v.discovered_at = w.discovered_at
             /\ IdRank[IdOf(v)] < IdRank[IdOf(w)]

\* C22: the top list has min(10, number of items) entries, the highest
\* scored first, items of equal score by more recent discovered_at first and
\* then by id, so that it does not depend on the order of enumeration.
C22_TopListDeterministic ==
    built.written
      => /\ Len(built.top_videos) = Min(TopN, Len(listed))
         /\ \A i, j \in 1..Len(built.top_videos) :
              i < j => Before(built.top_videos[i], built.top_videos[j])

\* the part of it about scores alone
C22_TopListByScore ==
    built.written
      => /\ Len(built.top_videos) = Min(TopN, Len(listed))
         /\ \A i, j \in 1..Len(built.top_videos) :
              i < j => built.top_videos[i].relevance_score >= built.top_videos[j].relevance_score

\* the points the scoring loop over the list kws adds for the keyword kw
PointsFor(kw, kws, base, extra) ==
    LET Is(k) == k = kw
    IN  KeywordPoints(SelectSeq(kws, Is), ContentOf(Plain(sample)),
                      Lower(Plain(sample).title), base, extra)

ScoredTestVideo ==
    /\ sample = TestVideo
    /\ outcome.fn = "calculate_relevance_score" /\ ~outcome.raised

\* what the same video scores with 500 views
ScoreWithFewViews ==
    calculate_relevance_score(Plain([sample EXCEPT !.view_count = Value(500)]))

TestVideoVerdict ==
    sample = TestVideo /\ outcome.fn = "is_ai_coding_relevant" => outcome.relevant

\* C23: the ChatGPT clone video of test_analyzer is relevant; "chatgpt" counts
\* as a high-value phrase that adds 15 to its score, its 50,000 views add 5,
\* and its score is at most 100.
C23_ChatGptHighValue ==
    /\ TestVideoVerdict
    /\ ScoredTestVideo
         => /\ PointsFor("chatgpt", ai_coding_keywords, 15, 10) >= 15
            /\ outcome.score = ScoreWithFewViews + 5
            /\ outcome.score <= 100

\* C23 as the code has it: "chatgpt" counts as an AI keyword, which adds 5
\* and 5 more for being in the title, and as no high-value phrase.
C23_ChatGptTopicKeyword ==
    /\ TestVideoVerdict
    /\ ScoredTestVideo
         => /\ PointsFor("chatgpt", ai_coding_keywords, 15, 10) = 0
            /\ PointsFor("chatgpt", ai_keywords, 5, 5) = 5 + 5
            /\ outcome.score = ScoreWithFewViews + 5
            /\ outcome.score <= 100

C23_Witness == ScoredTestVideo /\ outcome.score > 0

C23_WitnessRelevant ==
    sample = TestVideo /\ outcome.fn = "is_ai_coding_relevant" /\ outcome.relevant

\* the ids of the records in the store that were discovered on day d
RecordsOf(d) ==
    { id \in Ids : files[id].state = "full" /\ DateOf(files[id].video.discovered_at) = d }

\* the cycle of p has just written its report
Reported(p) == pc[p] = "cycle_end" /\ hist[p].reported

\* C24: a cycle writes the daily report only after it has polled every
\* configured channel and search term; the report's total is the number of
\* records in the store discovered on the current date, those the cycle itself
\* wrote on that date among them; and the report replaces the one the date
\* had.
C24_ReportAfterAllSources ==
    \A p \in Procs :
        Reported(p)
          => /\ hist[p].polled = RealSources
             /\ today[p] = DateOf(now)
             /\ reports[today[p]] = report[p]
             /\ reports[today[p]].total_videos = Cardinality(RecordsOf(today[p]))
             /\ { IdOf(reports[today[p]].top_videos[i]) :
                    i \in 1..Len(reports[today[p]].top_videos) } = RecordsOf(today[p])
             /\ { id \in hist[p].written : DateOf(files[id].video.discovered_at) = today[p] }
                  \subseteq RecordsOf(today[p])

\* a second cycle of the day added a record to the one the first had reported
C24_Witness ==
    \E p \in Procs :
        /\ Reported(p)
        /\ hist[p].cycle >= 2
        /\ hist[p].prevReport.written /\ hist[p].prevReport.total_videos = 1
        /\ hist[p].prevStartDay = today[p]
        /\ hist[p].written # {}
        /\ reports[today[p]].total_videos = 2

\* a keyword of one of the lists occurs in the channel name and nowhere in
\* the title, the description and the tags
OnlyInChannel(kws) ==
    \E i \in 1..Len(kws) :
        /\ Contains(kws[i], Lower(Plain(sample).channel_title))
        /\ ~Contains(kws[i], ContentOf(Plain(sample)))

\* the same dict with the channel name among the text that is searched
ChannelSearched ==
    [ Plain(sample) EXCEPT !.description = @ \o " " \o Plain(sample).channel_title ]

\* the same dict with nothing of the channel name but whether it is trusted
ChannelAsFlag ==
    [ Plain(sample) EXCEPT
        !.channel_title = IF IsTrusted(Plain(sample)) THEN trusted_channels[1] ELSE "" ]

\* what the method called on the sample returns for the dict d
ResultFor(d) ==
    CASE outcome.fn = "is_ai_coding_relevant" ->
           [ NoOutcome EXCEPT !.fn = outcome.fn, !.relevant = is_ai_coding_relevant(d) ]
      [] outcome.fn = "calculate_relevance_score" ->
           [ NoOutcome EXCEPT !.fn = outcome.fn, !.score = calculate_relevance_score(d) ]
      [] outcome.fn = "categorize_video" ->
           [ NoOutcome EXCEPT !.fn = outcome.fn, !.categories = categorize_video(d) ]
      [] OTHER -> NoOutcome

\* C25: the text searched for keywords is title, description, tags and
\* channel name, lower-cased and concatenated: a keyword that occurs only in
\* the channel name counts as a match for relevance, score and categories;
\* and evaluating an item leaves the item unchanged.
C25_ChannelNameIsSearched ==
    /\ [](~outcome.raised => outcome = ResultFor(ChannelSearched))
    /\ [][sample' = sample]_vars

\* C25 as the code has it: the text searched is title, description and tags;
\* the channel name is matched against the trusted channels only, and a
\* keyword that occurs only in it is no match; the item is left unchanged.
C25_ChannelNameIsNotSearched ==
    /\ [](~outcome.raised => outcome = ResultFor(ChannelAsFlag))
    /\ [][sample' = sample]_vars

\* two AI keywords in the title, a coding keyword in the channel name only:
\* not relevant
C25_Witness ==
    /\ ~outcome.raised /\ OnlyInChannel(coding_keywords) /\ ~IsTrusted(Plain(sample))
    /\ outcome.fn = "is_ai_coding_relevant" /\ ACount >= 2 /\ BCount = 0
    /\ ~outcome.relevant

\* the matched keywords of a list, and those of them found in the title
Matched(kws) ==
    { i \in 1..Len(kws) : Contains(kws[i], ContentOf(Plain(sample))) }

MatchedInTitle(kws) ==
    { i \in Matched(kws) : Contains(kws[i], Lower(Plain(sample).title)) }

ViewBonus ==
    IF Plain(sample).view_count > 100000 THEN 10
    ELSE IF Plain(sample).view_count > 10000 THEN 5 ELSE 0

LikeBonus == IF Plain(sample).like_count > 1000 THEN 5 ELSE 0

ScoreSum ==
    15 * Cardinality(Matched(ai_coding_keywords))
      + 10 * Cardinality(MatchedInTitle(ai_coding_keywords))
      + 5 * Cardinality(Matched(ai_keywords)) + 5 * Cardinality(MatchedInTitle(ai_keywords))
      + 3 * Cardinality(Matched(coding_keywords))
      + 3 * Cardinality(MatchedInTitle(coding_keywords))
      + (IF IsTrusted(Plain(sample)) THEN 20 ELSE 0)
      + ViewBonus + LikeBonus

\* C26: the score is min(100, S), S = 15 per matched high-value phrase (+10
\* if in the title) + 5 per matched AI keyword (+5 if in the title) + 3 per
\* matched coding keyword (+3 if in the title) + 20 for a trusted channel +
\* 10 for more than 100000 views, else 5 for more than 10000 + 5 for more
\* than 1000 likes; exactly 10000 or 100000 views or 1000 likes earn the
\* lower bonus or none.
C26_ScoreFormula ==
    outcome.fn = "calculate_relevance_score" /\ ~outcome.raised
      => outcome.score = Min(100, ScoreSum)

\* exactly 100000 views earn 5, exactly 10000 views and 1000 likes nothing
C26_Witness ==
    /\ outcome.fn = "calculate_relevance_score" /\ ~outcome.raised
    /\ Plain(sample).view_count = 100000 /\ Plain(sample).like_count = 1000
    /\ ViewBonus = 5 /\ LikeBonus = 0
    /\ outcome.score = ScoreSum /\ outcome.score < 100

C26_WitnessLower ==
    /\ outcome.fn = "calculate_relevance_score" /\ ~outcome.raised
    /\ Plain(sample).view_count = 10000
    /\ ViewBonus = 0
    /\ Cardinality(MatchedInTitle(ai_coding_keywords)) > 0

\* the cycle that hist[p] describes has come to its end
CycleOver(p) == hist[p].endAt > 0 /\ hist[p].endAt >= hist[p].startAt

\* C27: within one scheduler at most one cycle is in progress: a cycle starts
\* only when the one before it has ended, so a run that becomes due during a
\* cycle waits for the end of that cycle, and the polling, the store writes
\* and the report write of two cycles do not interleave.
C27_OneCycleAtATime ==
    /\ [][\A p \in Procs :
            hist'[p].cycle # hist[p].cycle
              => /\ hist'[p].cycle = hist[p].cycle + 1
                 /\ hist[p].cycle > 0 => CycleOver(p)]_vars
    /\ [](\A p \in Procs : pc[p] = "cycle_start" /\ hist[p].cycle > 0 => CycleOver(p))

\* the run was due before the cycle in progress ended, and starts after it
C27_Witness ==
    \E p \in Procs :
        /\ JobStarts(p)
        /\ hist[p].cycle > 0 /\ CycleOver(p)
        /\ next_run[p] < hist[p].endAt
        /\ next_run[p] > hist[p].startAt

\* no report for day d is still to come: the day is over and every cycle
\* that began has finished
ReportFinal(d) ==
    /\ DateOf(now) > d
    /\ \A p \in Procs : pc[p] \in {"off", "exit", "cycle_end", "run_pending", "sleep"}

\* C28: once the last cycle that reports on a date D has finished, the
\* stored report of D accounts for every record in the store discovered on D;
\* no record discovered on D stays missing from D's report.
C28_ReportCoversDate ==
    \A d \in Days :
        ReportFinal(d) /\ RecordsOf(d) # {}
          => /\ reports[d].written
             /\ reports[d].total_videos = Cardinality(RecordsOf(d))
             /\ RecordsOf(d) \subseteq
                  { IdOf(reports[d].top_videos[i]) : i \in 1..Len(reports[d].top_videos) }

\* a cycle that ends on the day it began leaves a report that covers the day
C28_SameDayCovered ==
    \E p \in Procs :
        /\ Reported(p) /\ hist[p].startDay = today[p]
        /\ RecordsOf(today[p]) # {}
        /\ reports[today[p]].total_videos = Cardinality(RecordsOf(today[p]))

\* C29: when classifying or storing a candidate of a source raises, the
\* handler of that source takes it: the candidates the source listed behind
\* it are not processed in this cycle, every later source is still polled,
\* and the report step still runs.
C29_FailureEndsSource ==
    \A p \in Procs :
        /\ \A a \in hist[p].storeFailed : LogHas(p, << "source_error", SourceName(a) >>)
        /\ \A e \in hist[p].abandoned : e \notin hist[p].yielders
        /\ hist[p].storeFailed # {} /\ pc[p] \in {"report", "report_write", "cycle_end"}
             => /\ hist[p].polled = RealSources
                /\ LogHas(p, << "cycle_complete", "" >>)
        /\ hist[p].storeFailed # {} /\ pc[p] \in {"cycle_end", "exit"}
             => hist[p].reported \/ LogHas(p, << "cycle_error", "" >>)

\* the first channel failed at a video, a later source was polled and
\* yielded a video that was stored, a relevant video behind the failure was
\* left, and the report was written
C29_Witness ==
    \E p \in Procs : \E b \in RealSources : \E id \in Ids :
        /\ pc[p] = "cycle_end"
        /\ hist[p].reported
        /\ \E a \in hist[p].storeFailed : a < b
        /\ << id, b >> \in hist[p].yielders /\ files[id].state = "full"
        /\ \E e \in hist[p].abandoned : Analysis[CHOOSE k \in ItemKeys : Catalog[k].id = e[1]].relevant

\* the verdict of is_ai_coding_relevant on the sample
Accepted == ~TextRaises(sample) /\ ~ChannelRaises(sample) /\ is_ai_coding_relevant(Plain(sample))

\* C30: relevance and score agree: an item that is_ai_coding_relevant accepts
\* gets a calculate_relevance_score of at least 11, of at least 15 when a
\* high-value phrase matches; so the relevance_score of every record that a
\* cycle has stored lies in 11..100, and none is 0.
C30_AcceptedScoresAtLeast11 ==
    /\ outcome.fn = "calculate_relevance_score" /\ ~outcome.raised /\ Accepted
         => /\ outcome.score \in 11..100
            /\ HighCount >= 1 => outcome.score >= 15
    /\ \A id \in Ids :
         files[id].state = "full" => files[id].video.relevance_score \in 11..100

\* an accepted item with one AI and two coding keywords, none in the title,
\* an unknown channel and few views: the score is 11
C30_Witness ==
    /\ outcome.fn = "calculate_relevance_score" /\ ~outcome.raised /\ Accepted
    /\ HighCount = 0 /\ ACount = 1 /\ BCount = 2 /\ ~IsTrusted(Plain(sample))
    /\ outcome.score = 11

\* one AI and one coding keyword: scored 8, and not accepted
C30_WitnessBelow ==
    /\ outcome.fn = "calculate_relevance_score" /\ ~outcome.raised /\ ~Accepted
    /\ ACount = 1 /\ BCount = 1
    /\ outcome.score = 8

\* a high-value phrase alone: accepted
C30_WitnessHigh ==
    /\ outcome.fn = "calculate_relevance_score" /\ ~outcome.raised /\ Accepted
    /\ HighCount >= 1 /\ outcome.score < 100

\* the records of the store, under the monitor
C30_StoredScores ==
    \A id \in Ids :
        files[id].state = "full" => files[id].video.relevance_score \in 11..100

====
